---- MODULE Spec2Model ----
(***************************************************************************)
(* State-machine model of the harvesting-and-alerting pipeline of          *)
(* rfp-scraper-enterprise:                                                 *)
(*   - PluginManager.scrape_all_sources   (src/plugins/plugin_manager.py)  *)
(*   - RFPScraperEnhanced.run_scraping_session                             *)
(*                                        (src/core/main_application.py)   *)
(*   - CircuitBreaker                     (src/core/circuit_breaker.py)    *)
(*   - AlertingSystem throttle and dispatch                                *)
(*                                   (src/monitoring/alerting_system.py)   *)
(*   - DatabaseManager.save_opportunity (src/database/database_manager.py) *)
(*   - MLOpportunityScorer              (src/ml/opportunity_scorer.py)     *)
(*   - the plugins' urgency derivation  (src/plugins/base_plugin.py,       *)
(*                                       plugins/federal_opportunities.py) *)
(* Each component has its own specification (SpecScrape, SpecSession,      *)
(* SpecBreaker, SpecAlert, SpecStore, ...), in which the variables of the  *)
(* other components stay at rest.                                          *)
(***************************************************************************)
EXTENDS Integers, Sequences, FiniteSets, TLC

VARIABLES
    \* ---- PluginManager ----
    plugin_dir,     \* the files of self.plugin_dir: file -> what the file defines
    plugins,        \* self.plugins, the registry: plugin name -> plugin object
    lastReload,     \* history: the most recent reload_plugins call
    enabled,        \* config['plugins']['enabled'] of the current call
    tasks,          \* the asyncio tasks created by scrape_all_sources, in order
    spc,            \* position of scrape_all_sources: idle, gather, returned, raised
    opportunities,  \* the list scrape_all_sources returns
    first_done,     \* history: the task that was first to complete with records, or 0
    \* ---- CircuitBreaker ----
    failure_threshold,  \* self.failure_threshold
    recovery_timeout,   \* self.recovery_timeout
    failure_count,      \* self.failure_count
    last_failure_time,  \* self.last_failure_time: <<>> is None, <<t>> a time
    state,              \* self.state: CLOSED, OPEN, HALF_OPEN
    now,                \* time.time()
    lastCall,           \* history: the most recent call through the wrapper
    streak,             \* history: failing calls since the last successful one
    \* ---- RFPScraperEnhanced.run_scraping_session ----
    rpc,                \* position: idle, try, finally, after, done
    session,            \* the ScrapeSession of the current run
    env,                \* what the run meets: config, fetch outcomes, collaborators
    pending,            \* the value the try block is about to return
    ret,                \* what run_scraping_session returned: none, True, False, raised
    scrape_sessions,    \* rows of the scrape_sessions table
    handoffs,           \* history: sessions passed to record_scrape_session this run
    effects,            \* history: the calls the try block of this run made
    \* ---- AlertingSystem ----
    firing,             \* the alerts the evaluators raise in this deployment
    slack_webhook,      \* config: notifications.slack_webhook is set
    alert_history,      \* self.alert_history: alert key -> time last sent
    clock,              \* datetime.now(), in hours
    apc,                \* per evaluation cycle: idle, send, record
    cur,                \* per cycle: the alert in hand, its key and its `now`
    dispatched_at,      \* history: alert key -> `now` of its last dispatch
    lastAttempt,        \* history: the most recent alert given to the throttle
    \* ---- DatabaseManager: the opportunities table ----
    opportunities_table,    \* the rows of table opportunities
    next_rowid,             \* the next AUTOINCREMENT id
    db_now,                 \* datetime.now() and CURRENT_TIMESTAMP
    held,                   \* the RFPOpportunity object last constructed
    lastSave,               \* history: the most recent save_opportunity call
    \* ---- _score_opportunities ----
    scoring_config,         \* config['scoring'], weights in hundredths
    scored,                 \* the opportunity last scored, with its score
    \* ---- concurrent callers of one CircuitBreaker ----
    tpc,                    \* per caller: idle, func, failing, storing
    loaded,                 \* per caller: the failure_count it has read
    failed_calls,           \* history: wrapped calls that raised and recorded
    succeeded,              \* history: some wrapped call has succeeded
    \* ---- AlertingSystem._send_alert_notification ----
    email_sender,           \* config: email.sender_email is set
    dpc,                    \* position of the dispatch: idle, email, slack, done
    outbox,                 \* what became of the alert on each channel
    dispatches,             \* dispatches completed so far
    \* ---- MLOpportunityScorer ----
    ml_scored,              \* the opportunity last given to the ML scorer, with its score
    \* ---- the plugins' urgency derivation ----
    today,                  \* datetime.now(): the day and whether midnight has passed
    derived,                \* the deadline last looked at by a plugin, when, and the urgency
    \* ---- RFPScraperEnhanced.run_continuous ----
    running,                \* self.running
    cpc,                    \* position of run_continuous: sleeping, stopped
    due,                    \* the 4-hour job of the schedule is due
    jobs,                   \* the tasks the job created, each a run_scraping_session
    \* ---- run_scraping_session: scoring and saving the merged list ----
    ppc,                    \* position: idle, score, save, done
    given,                  \* the list scrape_all_sources returned to this run
    scored_opps,            \* the same list once _score_opportunities has run
    opp_index,              \* position of `for opp in opportunities`
    found,                  \* saved_count
    clean,                  \* history: no save of this run has failed
    prior,                  \* history: the run before this one
    \* ---- AlertingSystem: the threshold evaluators ----
    evaluated               \* the evaluator last called, its argument and the alerts it returned

scrapeVars ==
    <<plugin_dir, plugins, lastReload, enabled, tasks, spc, opportunities,
      first_done>>
breakerVars == <<failure_threshold, recovery_timeout, failure_count,
                 last_failure_time, state, now, lastCall, streak>>
sessionVars ==
    <<rpc, session, env, pending, ret, scrape_sessions, handoffs, effects>>
alertVars == <<firing, slack_webhook, alert_history, clock, apc, cur, dispatched_at, lastAttempt>>
storeVars == <<opportunities_table, next_rowid, db_now, held, lastSave>>
scoreVars == <<scoring_config, scored>>
callerVars == <<tpc, loaded, failed_calls, succeeded>>
dispatchVars == <<email_sender, dpc, outbox, dispatches>>
mlVars == <<ml_scored>>
urgencyVars == <<today, derived>>
contVars == <<running, cpc, due, jobs>>
persistVars == <<ppc, given, scored_opps, opp_index, found, clean, prior>>
evalVars == <<evaluated>>
vars ==
    <<scrapeVars, breakerVars, sessionVars, alertVars, storeVars, scoreVars,
      callerVars, dispatchVars, mlVars, urgencyVars, contVars, persistVars, evalVars>>

(***************************************************************************)
(* Bounds                                                                  *)
(***************************************************************************)
MaxEnabled == 3     \* longest plugins.enabled list
MaxRecs == 1        \* most records one fetch returns
MaxThreshold == 2   \* largest failure_threshold of a breaker
MaxRecovery == 1    \* largest recovery_timeout of a breaker, in clock units
MaxTime == 5        \* the breaker's clock stops here
MaxFailures == 4    \* no wrapped call is made beyond this failure count
SessRecs == 3       \* most records one fetch returns within a session
MaxRuns == 2        \* runs of run_scraping_session
MaxClock == 13      \* the alerting clock stops here, in hours
MaxRaceClock == 2   \* the same, when two evaluation cycles run concurrently
MaxDispatches == 2  \* dispatches of an alert to the channels
MaxToday == 1       \* datetime.now() stops at this day
MaxDeadlineDay == 35 \* the latest deadline date, in days
MaxScheduled == 3   \* runs the schedule starts in continuous mode
MaxCalls == 3       \* failing calls made by concurrent callers of a breaker
MaxRows == 2        \* rows ever inserted into table opportunities
MaxScore == 1000    \* largest score or rate given to an evaluator, in tenths
MaxDbNow == 1       \* the database clock stops here

PluginNames == {"A", "B", "C"}

(***************************************************************************)
(* PluginManager                                                           *)
(***************************************************************************)

\* The *.py files the plugin directory can hold.
PluginFiles == {"a.py", "b.py", "c.py"}

\* What a file gives when load_plugins executes it: nothing usable (the file
\* is absent, raises on import or defines no RFPPlugin), or an RFPPlugin whose
\* instance has a name and either sets description and version ("full") or
\* has neither attribute ("bare").
NoFile == [kind |-> "absent", name |-> "", meta |-> ""]
BrokenFile == [kind |-> "broken", name |-> "", meta |-> ""]
PluginFile(n, meta) == [kind |-> "plugin", name |-> n, meta |-> meta]
FileContents ==
    {NoFile, BrokenFile}
        \cup {PluginFile(n, meta) : n \in PluginNames, meta \in {"full", "bare"}}

\* module.RFPPlugin(): the object built from a file.
PluginObject(c) == [name |-> c.name, meta |-> c.meta]

NoPlugins == [n \in {} |-> PluginObject(NoFile)]

\* self.plugins[plugin.name] = plugin
Register(reg, obj) ==
    [n \in DOMAIN reg \cup {obj.name} |-> IF n = obj.name THEN obj ELSE reg[n]]

\* load_plugins: the loop over self.plugin_dir.glob("*.py"), which yields the
\* files in the sequence `order`.
RECURSIVE load_plugins(_, _, _)
load_plugins(reg, dir, order) ==
    IF order = <<>> THEN reg
    ELSE LET c == dir[Head(order)]
             next == IF c.kind = "plugin"
                     THEN Register(reg, PluginObject(c))
                     ELSE reg
         IN  load_plugins(next, dir, Tail(order))

\* The sequences of files, without repetition.
FileOrders ==
    {o \in UNION {[1..k -> PluginFiles] : k \in 0..Cardinality(PluginFiles)} :
        \A i, j \in DOMAIN o : i # j => o[i] # o[j]}

\* glob can yield the files present in dir in the sequence o.
IsGlobOrder(dir, o) ==
    {o[i] : i \in DOMAIN o} = {f \in PluginFiles : dir[f].kind # "absent"}

\* A mutant: the reload does not clear the registry first.
reload_plugins_unclearing(reg, dir, order) == load_plugins(reg, dir, order)

\* reload_plugins: self.plugins.clear(); self.load_plugins()
reload_plugins(reg, dir, order) == load_plugins(NoPlugins, dir, order)

\* get_plugin_info: name, description and version of every registry entry,
\* with getattr's defaults for a plugin without the attribute.
get_plugin_info(reg) ==
    [n \in DOMAIN reg |->
        [name |-> reg[n].name,
         description |-> IF reg[n].meta = "full"
                         THEN "description of " \o reg[n].name
                         ELSE "No description",
         version |-> IF reg[n].meta = "full" THEN "2.0.0" ELSE "1.0.0"]]

\* A plugin directory with one file per name of S, each defining that plugin.
FileOf(n) == CASE n = "A" -> "a.py" [] n = "B" -> "b.py" [] OTHER -> "c.py"
StandardDir(S) ==
    [f \in PluginFiles |->
        IF \E n \in S : FileOf(n) = f
        THEN PluginFile(CHOOSE n \in S : FileOf(n) = f, "full")
        ELSE NoFile]

\* PluginManager.__init__ on a standard directory: load_plugins.
Loaded(dir) ==
    load_plugins(NoPlugins, dir, CHOOSE o \in FileOrders : IsGlobOrder(dir, o))

NoReload == [seq |-> 0, before |-> {}]

\* How the fetch (plugin.scrape) awaited by a task ended: it returned a list,
\* it raised an Exception, it raised asyncio.TimeoutError itself, the wait_for
\* timer fired first, or the fetch was cancelled from outside the task.
FetchEvents == {"returned", "raised", "raised_timeout", "timer"}

NoResult == [kind |-> "none", val |-> <<>>]

\* The records of the list returned by the fetch of task i of plugin p.
Records(p, i, n) == [k \in 1..n |-> <<p, i, k>>]

EnabledLists == UNION {[1..n -> PluginNames] : n \in 0..MaxEnabled}

\* asyncio.create_task(self._scrape_with_timeout(plugin, config)); the task
\* runs up to the suspension of plugin.scrape inside wait_for.
NewTask(p) ==
    [plugin |-> p, st |-> "running", ev |-> "none",
     cancelled |-> FALSE, result |-> NoResult]

\* A mutant: a task is launched for every enabled name, registered or not.
LaunchTasksUnchecked(cfg) == [i \in 1..Len(cfg) |-> NewTask(cfg[i])]

\* for plugin_name in enabled_plugins: if plugin_name in self.plugins: ...
LaunchTasks(cfg) ==
    LET present == SelectSeq(cfg, LAMBDA p : p \in DOMAIN plugins)
    IN  [i \in 1..Len(present) |-> NewTask(present[i])]

\* The value of the task running _scrape_with_timeout for plugin p, given how
\* the awaited fetch ended (n: the length of the list it returned).
scrape_with_timeout(p, i, ev, n) ==
    CASE ev = "returned" -> [kind |-> "list", val |-> Records(p, i, n)]
      [] ev = "timer" -> [kind |-> "list", val |-> <<>>]
      [] ev = "raised_timeout" -> [kind |-> "list", val |-> <<>>]
      [] ev = "raised" -> [kind |-> "exc", val |-> <<>>]
      [] OTHER -> [kind |-> "cancelled", val |-> <<>>]

\* A mutant: one timeout around the whole fan-out cancels every running fetch.
TimeoutCancelsRunning(ts, i) == {j \in DOMAIN ts : ts[j].st = "running"}

\* The fetches asyncio.wait_for cancels when the timer of task i fires.
TimeoutCancels(ts, i) == {i}

\* A mutant: gather without return_exceptions re-raises a task's exception.
GatherPropagating(ts) ==
    [raised |-> \E i \in DOMAIN ts : ts[i].result.kind = "exc",
     results |-> [i \in DOMAIN ts |-> ts[i].result]]

\* A mutant: the results come in the order of completion, the first task to
\* complete with records first.
GatherCompletionOrder(ts) ==
    LET rest == SelectSeq([i \in DOMAIN ts |-> i], LAMBDA i : i # first_done)
        order == IF first_done = 0 THEN rest ELSE <<first_done>> \o rest
    IN  [raised |-> FALSE, results |-> [k \in DOMAIN order |-> ts[order[k]].result]]

\* asyncio.gather(*tasks, return_exceptions=True): the results in task order,
\* an exception being a result like any other.
Gather(ts) ==
    [raised |-> FALSE, results |-> [i \in DOMAIN ts |-> ts[i].result]]

\* The merge loop: lists are appended, exceptions are logged.
RECURSIVE MergeResults(_)
MergeResults(results) ==
    IF results = <<>> THEN <<>>
    ELSE LET r == Head(results)
         IN  (IF r.kind = "list" THEN r.val ELSE <<>>)
                 \o MergeResults(Tail(results))

\* A call of scrape_all_sources(config), up to `await asyncio.gather(...)`.
ScrapeStart(cfg) ==
    /\ spc = "idle"
    /\ enabled' = cfg
    /\ tasks' = LaunchTasks(cfg)
    /\ opportunities' = <<>>
    /\ first_done' = 0
    /\ spc' = "gather"
    /\ UNCHANGED <<plugin_dir, plugins, lastReload, breakerVars, sessionVars, alertVars, storeVars, scoreVars, callerVars, dispatchVars, mlVars, urgencyVars, contVars, persistVars, evalVars>>

\* The first task to complete with records, once task i completes with n.
FirstDone(i, n) == IF first_done = 0 /\ n > 0 THEN i ELSE first_done

TaskEnds(i, ev, n) ==
    [tasks EXCEPT ![i].st = "done", ![i].ev = ev,
        ![i].result = scrape_with_timeout(tasks[i].plugin, i, ev, n)]

\* The fetch of task i returns a list of n records.
FetchReturns(i, n) ==
    /\ spc = "gather"
    /\ i \in DOMAIN tasks
    /\ tasks[i].st = "running"
    /\ tasks' = TaskEnds(i, "returned", n)
    /\ first_done' = FirstDone(i, n)
    /\ UNCHANGED <<plugin_dir, plugins, lastReload, enabled, spc, opportunities, breakerVars, sessionVars, alertVars, storeVars, scoreVars, callerVars, dispatchVars, mlVars, urgencyVars, contVars, persistVars, evalVars>>

\* The fetch of task i raises (asyncio.TimeoutError or another Exception).
FetchRaises(i, ev) ==
    /\ spc = "gather"
    /\ i \in DOMAIN tasks
    /\ tasks[i].st = "running"
    /\ ev \in {"raised", "raised_timeout"}
    /\ tasks' = TaskEnds(i, ev, 0)
    /\ first_done' = FirstDone(i, 0)
    /\ UNCHANGED <<plugin_dir, plugins, lastReload, enabled, spc, opportunities, breakerVars, sessionVars, alertVars, storeVars, scoreVars, callerVars, dispatchVars, mlVars, urgencyVars, contVars, persistVars, evalVars>>

\* The wait_for timer of task i fires while its fetch is still suspended:
\* wait_for cancels the fetch and raises TimeoutError into the task.
FetchTimeout(i) ==
    /\ spc = "gather"
    /\ i \in DOMAIN tasks
    /\ tasks[i].st = "running"
    /\ LET hit == TimeoutCancels(tasks, i)
           ended == TaskEnds(i, "timer", 0)
       IN  /\ tasks' = [j \in DOMAIN tasks |->
                        IF j = i
                        THEN [ended[j] EXCEPT !.cancelled = TRUE]
                        ELSE IF j \in hit
                        THEN [tasks[j] EXCEPT !.st = "done",
                                !.ev = "cancelled", !.cancelled = TRUE,
                                !.result = scrape_with_timeout(
                                              tasks[j].plugin, j, "cancelled", 0)]
                        ELSE tasks[j]]
           /\ first_done' = FirstDone(i, 0)
    /\ UNCHANGED <<plugin_dir, plugins, lastReload, enabled, spc, opportunities, breakerVars, sessionVars, alertVars, storeVars, scoreVars, callerVars, dispatchVars, mlVars, urgencyVars, contVars, persistVars, evalVars>>

\* A mutant: the wait ends as soon as one task is done.
GatherDoneFirst(ts) == \E i \in DOMAIN ts : ts[i].st = "done"

\* await asyncio.gather(*tasks, ...) resumes when every task is done.
GatherDone(ts) == \A i \in DOMAIN ts : ts[i].st = "done"

\* gather completes when every task is done; then the merge loop and return.
GatherReturn ==
    /\ spc = "gather"
    /\ GatherDone(tasks)
    /\ LET g == Gather(tasks)
       IN  IF g.raised
           THEN /\ spc' = "raised"
                /\ UNCHANGED opportunities
           ELSE /\ spc' = "returned"
                /\ opportunities' = MergeResults(g.results)
    /\ UNCHANGED <<plugin_dir, plugins, lastReload, enabled, tasks, first_done, breakerVars, sessionVars, alertVars, storeVars, scoreVars, callerVars, dispatchVars, mlVars, urgencyVars, contVars, persistVars, evalVars>>

\* The caller has taken the returned list (or the exception); the locals of
\* the finished call are gone and the manager can be called again.
ScrapeRelease ==
    /\ spc \in {"returned", "raised"}
    /\ spc' = "idle"
    /\ enabled' = <<>>
    /\ tasks' = <<>>
    /\ opportunities' = <<>>
    /\ first_done' = 0
    /\ UNCHANGED <<plugin_dir, plugins, lastReload, breakerVars, sessionVars, alertVars, storeVars, scoreVars, callerVars, dispatchVars, mlVars, urgencyVars, contVars, persistVars, evalVars>>

InitPlugins ==
    /\ plugin_dir \in {StandardDir(S) : S \in SUBSET PluginNames}
    /\ plugins = Loaded(plugin_dir)
    /\ lastReload = NoReload
    /\ enabled = <<>>
    /\ tasks = <<>>
    /\ spc = "idle"
    /\ opportunities = <<>>
    /\ first_done = 0

\* A deployment with two plugin files in the plugin directory.
InitTwoPlugins ==
    /\ plugin_dir \in {StandardDir(S) : S \in {T \in SUBSET PluginNames : Cardinality(T) = 2}}
    /\ plugins = Loaded(plugin_dir)
    /\ lastReload = NoReload
    /\ enabled = <<>>
    /\ tasks = <<>>
    /\ spc = "idle"
    /\ opportunities = <<>>
    /\ first_done = 0

\* A plugin file is written, replaced or deleted while the manager is alive.
DirChange(f, c) ==
    /\ spc = "idle"
    /\ plugin_dir[f] # c
    /\ plugin_dir' = [plugin_dir EXCEPT ![f] = c]
    /\ UNCHANGED <<plugins, lastReload, enabled, tasks, spc, opportunities,
                   first_done, breakerVars, sessionVars, alertVars, storeVars,
                   scoreVars, callerVars, dispatchVars, mlVars, urgencyVars, contVars, persistVars, evalVars>>

\* reload_plugins(), called between two scrapes.
ReloadPlugins(order) ==
    /\ spc = "idle"
    /\ IsGlobOrder(plugin_dir, order)
    /\ plugins' = reload_plugins(plugins, plugin_dir, order)
    /\ lastReload' = [seq |-> 1 - lastReload.seq, before |-> DOMAIN plugins]
    /\ UNCHANGED <<plugin_dir, enabled, tasks, spc, opportunities, first_done,
                   breakerVars, sessionVars, alertVars, storeVars, scoreVars,
                   callerVars, dispatchVars, mlVars, urgencyVars, contVars, persistVars, evalVars>>

NextRegistry ==
    \/ \E f \in PluginFiles, c \in FileContents : DirChange(f, c)
    \/ \E order \in FileOrders : ReloadPlugins(order)

NextScrape ==
    \/ \E cfg \in EnabledLists : ScrapeStart(cfg)
    \/ \E i \in 1..MaxEnabled, n \in 0..MaxRecs : FetchReturns(i, n)
    \/ \E i \in 1..MaxEnabled, ev \in {"raised", "raised_timeout"} : FetchRaises(i, ev)
    \/ \E i \in 1..MaxEnabled : FetchTimeout(i)
    \/ GatherReturn
    \/ ScrapeRelease


(***************************************************************************)
(* CircuitBreaker                                                          *)
(***************************************************************************)
NoCall == [seq |-> 0, pre |-> "NONE", elapsed |-> 0, mid |-> "NONE",
           res |-> "none", invoked |-> FALSE, t0 |-> 0, t1 |-> 0]

\* CircuitBreaker.__init__ with the default field values.
InitBreakerFields ==
    /\ failure_count = 0
    /\ last_failure_time = <<>>
    /\ state = "CLOSED"
    /\ now = 0
    /\ lastCall = NoCall
    /\ streak = 0

\* The breaker the application builds: CircuitBreaker().
DefaultThreshold == 5
DefaultRecovery == 60

InitBreakerDefault ==
    /\ failure_threshold = DefaultThreshold
    /\ recovery_timeout = DefaultRecovery
    /\ InitBreakerFields

InitBreaker ==
    /\ failure_threshold \in 1..MaxThreshold
    /\ recovery_timeout \in 0..MaxRecovery
    /\ InitBreakerFields

Breaker ==
    [failure_count |-> failure_count, last_failure_time |-> last_failure_time,
     state |-> state]

\* A mutant: the recovery test includes the boundary.
RecoveryElapsedInclusive(t, last, timeout) == t - last >= timeout

\* time.time() - self.last_failure_time > self.recovery_timeout
RecoveryElapsed(t, last, timeout) == t - last > timeout

\* A mutant: the circuit opens one failure late.
record_failure_late(b, t) ==
    LET c == b.failure_count + 1
    IN  [failure_count |-> c, last_failure_time |-> <<t>>,
         state |-> IF c > failure_threshold THEN "OPEN" ELSE b.state]

\* A mutant: a failure does not stamp the failure time.
record_failure_unstamped(b, t) ==
    LET c == b.failure_count + 1
    IN  [failure_count |-> c,
         last_failure_time |->
            IF b.last_failure_time = <<>> THEN <<t>> ELSE b.last_failure_time,
         state |-> IF c >= failure_threshold THEN "OPEN" ELSE b.state]

record_failure(b, t) ==
    LET c == b.failure_count + 1
    IN  [failure_count |-> c, last_failure_time |-> <<t>>,
         state |-> IF c >= failure_threshold THEN "OPEN" ELSE b.state]

\* A mutant: reset clears the count but leaves the state.
reset_count_only(b) == [b EXCEPT !.failure_count = 0]

\* A mutant: reset closes the circuit but keeps the count.
reset_keeps_count(b) == [b EXCEPT !.state = "CLOSED"]

reset(b) == [b EXCEPT !.failure_count = 0, !.state = "CLOSED"]

\* The state in which the wrapper goes on to call func, or "REJECTED" when it
\* raises Exception("Circuit breaker is OPEN") instead.
Admit(b, t) ==
    IF b.state = "OPEN"
    THEN IF RecoveryElapsed(t, b.last_failure_time[1], recovery_timeout)
         THEN "HALF_OPEN"
         ELSE "REJECTED"
    ELSE b.state

\* A mutant: a rejected call is recorded like a failure.
wrapper_recording_rejections(b, res, t0, t1) ==
    LET mid == Admit(b, t0)
        entered == [b EXCEPT !.state = mid]
    IN  CASE mid = "REJECTED" -> record_failure(b, t0)
          [] res = "ok" -> reset(entered)
          [] res = "expected" -> record_failure(entered, t1)
          [] OTHER -> entered

\* The breaker after a whole call through the wrapper that starts at time t0:
\* func behaves as res (ok, expected: raises the configured exception class,
\* other: raises another exception) and ends at time t1.
wrapper(b, res, t0, t1) ==
    LET mid == Admit(b, t0)
        entered == [b EXCEPT !.state = mid]
    IN  CASE mid = "REJECTED" -> b
          [] res = "ok" -> reset(entered)
          [] res = "expected" -> record_failure(entered, t1)
          [] OTHER -> entered

\* One call through the wrapper; d is the time func takes.
Call(res, d) ==
    /\ failure_count < MaxFailures
    /\ now + d <= MaxTime
    /\ LET mid == Admit(Breaker, now)
           after == wrapper(Breaker, res, now, now + d)
           invoked == mid # "REJECTED"
           outcome == IF ~invoked THEN "rejected"
                      ELSE IF res = "ok" THEN "ok"
                      ELSE IF res = "expected" THEN "failure"
                      ELSE "other"
       IN  /\ failure_count' = after.failure_count
           /\ last_failure_time' = after.last_failure_time
           /\ state' = after.state
           /\ now' = IF invoked THEN now + d ELSE now
           /\ lastCall' = [seq |-> 1 - lastCall.seq,
                           pre |-> state,
                           elapsed |-> IF last_failure_time = <<>> THEN 0
                                       ELSE now - last_failure_time[1],
                           mid |-> mid,
                           res |-> outcome,
                           invoked |-> invoked,
                           t0 |-> now,
                           t1 |-> IF invoked THEN now + d ELSE now]
           /\ streak' = IF outcome = "ok" THEN 0
                        ELSE IF outcome = "failure" THEN streak + 1
                        ELSE streak
    /\ UNCHANGED <<failure_threshold, recovery_timeout, scrapeVars, sessionVars, alertVars, storeVars, scoreVars, callerVars, dispatchVars, mlVars, urgencyVars, contVars, persistVars, evalVars>>

\* Time passes between calls.
Tick ==
    /\ now < MaxTime
    /\ now' = now + 1
    /\ UNCHANGED <<failure_threshold, recovery_timeout, failure_count,
                   last_failure_time, state, lastCall, streak, scrapeVars,
                   sessionVars, alertVars, storeVars, scoreVars, callerVars, dispatchVars, mlVars, urgencyVars, contVars, persistVars, evalVars>>

NextBreaker ==
    \/ \E res \in {"ok", "expected", "other"}, d \in 0..1 : Call(res, d)
    \/ Tick

(***************************************************************************)
(* RFPScraperEnhanced.run_scraping_session                                 *)
(***************************************************************************)

\* The names bound at module level in main_application.py (its imports and
\* its own definitions).  sqlite3 is imported only inside main().
ModuleGlobals ==
    {"os", "sys", "logging", "asyncio", "signal", "schedule", "datetime",
     "timedelta", "Path", "List", "Optional", "psutil", "aiohttp", "Counter",
     "Histogram", "Gauge", "start_http_server", "RFPOpportunity",
     "ScrapeSession", "SystemMetric", "ConfigManager", "CircuitBreaker",
     "DatabaseManager", "NotificationManager", "MetricsCollector",
     "PluginManager", "SCRAPE_COUNTER", "SCRAPE_DURATION",
     "OPPORTUNITIES_FOUND", "SYSTEM_HEALTH", "RFPScraperEnhanced", "main"}

\* plugins.enabled of the application's config: plugin names, none twice.
EnabledSets ==
    {cfg \in EnabledLists : \A i, j \in DOMAIN cfg : cfg[i] = cfg[j] => i = j}

Range(f) == {f[i] : i \in DOMAIN f}

\* How the fetch of one plugin ends in a run.
FetchOutcomes ==
    [ev : {"timer", "raised"}, n : {0}] \cup [ev : {"returned"}, n : 0..SessRecs]

\* What one run meets: the enabled list, how each enabled plugin's fetch
\* ends, whether the checks of _health_check find the system healthy, and
\* whether the session insert, the upserts, the CSV report, the email
\* delivery (within its three tries) and the Slack post succeed.
Environments ==
    UNION {[enabled : {cfg}, plan : [Range(cfg) -> FetchOutcomes],
            healthy : BOOLEAN, db_up : BOOLEAN, save_ok : BOOLEAN,
            csv_ok : BOOLEAN, email_ok : BOOLEAN, slack_ok : BOOLEAN] :
           cfg \in EnabledSets}

NoEnv == [enabled |-> <<>>, plan |-> <<>>, healthy |-> TRUE, db_up |-> TRUE,
          save_ok |-> TRUE, csv_ok |-> TRUE, email_ok |-> TRUE,
          slack_ok |-> TRUE]

\* ScrapeSession(start_time=session_start, source='automated')
NewSession ==
    [status |-> "started", end_time |-> "None", opportunities_found |-> 0,
     errors |-> ""]

\* _health_check as it would be if the module imported sqlite3.
health_check_resolving(e) == e.healthy

\* _health_check: the first statement evaluates the global name sqlite3; an
\* unbound name raises NameError, which the except clause turns into False.
health_check(e) ==
    IF "sqlite3" \notin ModuleGlobals THEN FALSE ELSE e.healthy

\* scrape_all_sources(self.config) as one call: every task ends as the plan
\* says, gather collects, the loop merges.
scrape_all_sources(e) ==
    LET launched == LaunchTasks(e.enabled)
        ended == [i \in DOMAIN launched |->
                    LET o == e.plan[launched[i].plugin]
                    IN  [launched[i] EXCEPT !.st = "done", !.ev = o.ev,
                            !.result = scrape_with_timeout(
                                          launched[i].plugin, i, o.ev, o.n)]]
        g == Gather(ended)
    IN  [raised |-> g.raised,
         opportunities |-> IF g.raised THEN <<>> ELSE MergeResults(g.results)]

\* The calls a try block made: plugin fetches, save_opportunity calls, tries
\* of send_email_notification, calls of send_slack_notification.
NoEffects == [fetches |-> 0, upserts |-> 0, emails |-> 0, slack |-> 0]

\* A mutant: the early return forgets to set the status.
run_try_unset(s, e) ==
    [session |-> s, ret |-> "False", effects |-> NoEffects]

\* The try block with its except clause, from the health check to the return:
\* the session as it leaves the block, the value about to be returned and the
\* calls made.  save_opportunity returns False on a failure; the CSV report
\* and send_email_notification (after max_tries = 3) raise;
\* send_slack_notification logs its failure.
run_try(s, e) ==
    IF ~health_check(e)
    THEN [session |-> [s EXCEPT !.status = "health_check_failed"],
          ret |-> "False", effects |-> NoEffects]
    ELSE LET scraped == scrape_all_sources(e)
             opps == scraped.opportunities
             saved_count == IF e.save_ok THEN Len(opps) ELSE 0
             fetched == [NoEffects EXCEPT
                            !.fetches = Len(LaunchTasks(e.enabled))]
             saved == [fetched EXCEPT !.upserts = Len(opps)]
         IN  IF scraped.raised
             THEN [session |-> [s EXCEPT !.status = "failed",
                                         !.errors = "error"],
                   ret |-> "False", effects |-> fetched]
             ELSE IF opps = <<>>
             THEN [session |-> [s EXCEPT !.status = "no_data"],
                   ret |-> "True", effects |-> fetched]
             ELSE IF ~e.csv_ok
             THEN [session |-> [s EXCEPT !.status = "failed",
                                         !.errors = "error",
                                         !.opportunities_found = saved_count],
                   ret |-> "False", effects |-> saved]
             ELSE IF ~e.email_ok
             THEN [session |-> [s EXCEPT !.status = "failed",
                                         !.errors = "error",
                                         !.opportunities_found = saved_count],
                   ret |-> "False", effects |-> [saved EXCEPT !.emails = 3]]
             ELSE [session |-> [s EXCEPT !.status = "completed",
                                         !.opportunities_found = saved_count],
                   ret |-> "True",
                   effects |-> [saved EXCEPT !.emails = 1, !.slack = 1]]

\* No run is in progress and the bound on runs is not reached.
CanRun == rpc = "idle" /\ Len(scrape_sessions) < MaxRuns

\* A call of run_scraping_session: the session is created.
RunStart(e) ==
    /\ CanRun
    /\ rpc' = "try"
    /\ session' = NewSession
    /\ env' = e
    /\ pending' = "none"
    /\ ret' = "none"
    /\ handoffs' = <<>>
    /\ effects' = NoEffects
    /\ UNCHANGED <<scrape_sessions, scrapeVars, breakerVars, alertVars, storeVars, scoreVars, callerVars, dispatchVars, mlVars, urgencyVars, contVars, persistVars, evalVars>>

RunTry ==
    /\ rpc = "try"
    /\ LET r == run_try(session, env)
       IN  /\ session' = r.session
           /\ pending' = r.ret
           /\ effects' = r.effects
    /\ rpc' = "finally"
    /\ UNCHANGED <<env, ret, scrape_sessions, handoffs, scrapeVars, breakerVars, alertVars, storeVars, scoreVars, callerVars, dispatchVars, mlVars, urgencyVars, contVars, persistVars, evalVars>>

\* finally: end_time and duration are set and the session is handed to
\* record_scrape_session, whose insert raises when the database is down.
RunFinally ==
    /\ rpc = "finally"
    /\ LET s == [session EXCEPT !.end_time = "set"]
       IN  /\ session' = s
           /\ handoffs' = Append(handoffs, s)
           /\ IF env.db_up
              THEN /\ scrape_sessions' = Append(scrape_sessions, s)
                   /\ rpc' = "after"
                   /\ ret' = ret
              ELSE /\ scrape_sessions' = scrape_sessions
                   /\ rpc' = "done"
                   /\ ret' = "raised"
    /\ UNCHANGED <<env, pending, effects, scrapeVars, breakerVars, alertVars, storeVars, scoreVars, callerVars, dispatchVars, mlVars, urgencyVars, contVars, persistVars, evalVars>>

\* SYSTEM_HEALTH.set(...) reads the status; then the pending value is returned.
RunExit ==
    /\ rpc = "after"
    /\ rpc' = "done"
    /\ ret' = pending
    /\ UNCHANGED <<session, env, pending, scrape_sessions, handoffs, effects,
                   scrapeVars, breakerVars, alertVars, storeVars, scoreVars, callerVars, dispatchVars, mlVars, urgencyVars, contVars, persistVars, evalVars>>

\* The caller has the returned value (or the exception); the locals of the
\* finished run are gone and the next run can be started.
RunRelease ==
    /\ rpc = "done"
    /\ rpc' = "idle"
    /\ session' = NewSession
    /\ env' = NoEnv
    /\ pending' = "none"
    /\ ret' = "none"
    /\ handoffs' = <<>>
    /\ effects' = NoEffects
    /\ UNCHANGED <<scrape_sessions, scrapeVars, breakerVars, alertVars, storeVars, scoreVars, callerVars, dispatchVars, mlVars, urgencyVars, contVars, persistVars, evalVars>>

\* Some environment meets the next run.
RunStarts == CanRun /\ \E e \in Environments : RunStart(e)

InitSession ==
    /\ rpc = "idle"
    /\ session = NewSession
    /\ env = NoEnv
    /\ pending = "none"
    /\ ret = "none"
    /\ scrape_sessions = <<>>
    /\ handoffs = <<>>
    /\ effects = NoEffects

NextSession ==
    \/ RunStarts
    \/ RunTry
    \/ RunFinally
    \/ RunExit
    \/ RunRelease

(***************************************************************************)
(* AlertingSystem: throttle and dispatch                                   *)
(***************************************************************************)
Cycles == {"c1", "c2"}

\* Alerts given to the throttle: (metric, severity).
Alerts ==
    {[metric |-> "health_score", severity |-> "critical"],
     [metric |-> "health_score", severity |-> "warning"],
     [metric |-> "opportunities", severity |-> "info"],
     [metric |-> "health_score", severity |-> "notice"]}

\* A mutant: the key is the metric alone.
alert_key_by_metric(a) == a.metric

\* alert_key = f"{alert.metric}_{alert.severity}"
alert_key(a) == a.metric \o "_" \o a.severity

AlertKeys == {alert_key(a) : a \in Alerts}

\* throttle_hours.get(alert.severity, 4), in hours
throttle_time(severity) ==
    CASE severity = "critical" -> 1
      [] severity = "warning" -> 4
      [] severity = "info" -> 12
      [] OTHER -> 4

\* A mutant: the cool-down test includes the boundary.
throttled_inclusive(h, key, t, severity) ==
    key \in DOMAIN h /\ t - h[key] <= throttle_time(severity)

\* if alert_key in self.alert_history: ... if now - last_sent < timedelta(...)
throttled(h, key, t, severity) ==
    key \in DOMAIN h /\ t - h[key] < throttle_time(severity)

\* The map h with key set to t.
Stamp(h, key, t) ==
    [k \in DOMAIN h \cup {key} |-> IF k = key THEN t ELSE h[k]]

\* A mutant: the send is not recorded.
record_sent_dropped(h, key, t) == h

\* self.alert_history[alert_key] = now
record_sent(h, key, t) == Stamp(h, key, t)

NoAlert == [alert |-> [metric |-> "", severity |-> ""], key |-> "", now |-> 0]

NoAttempt == [seq |-> 0, alert |-> [metric |-> "", severity |-> ""],
              age |-> <<>>, since |-> <<>>, dispatched |-> FALSE,
              after_refusal |-> FALSE, outcome |-> "none"]

\* The age of a key's entry at time t: <<>> when the key has none.
Age(h, key, t) == IF key \in DOMAIN h THEN <<t - h[key]>> ELSE <<>>

\* A mutant: a suppressed attempt is stamped into the history as well.
ThrottleExtending(c, a) ==
    /\ apc[c] = "idle"
    /\ LET key == alert_key(a)
           stop == throttled(alert_history, key, clock, a.severity)
       IN  /\ lastAttempt' = [seq |-> 1 - lastAttempt.seq,
                              alert |-> a,
                              age |-> Age(alert_history, key, clock),
                              since |-> Age(dispatched_at, key, clock),
                              dispatched |-> ~stop,
                              after_refusal |-> /\ lastAttempt.alert = a
                                                /\ ~lastAttempt.dispatched,
                              outcome |-> "none"]
           /\ IF stop
              THEN /\ alert_history' = Stamp(alert_history, key, clock)
                   /\ UNCHANGED <<apc, cur>>
              ELSE /\ UNCHANGED alert_history
                   /\ apc' = [apc EXCEPT ![c] = "send"]
                   /\ cur' = [cur EXCEPT ![c] =
                                [alert |-> a, key |-> key, now |-> clock]]
    /\ UNCHANGED <<firing, slack_webhook, clock, dispatched_at,
                   scrapeVars, breakerVars, sessionVars, storeVars, scoreVars, callerVars, dispatchVars, mlVars, urgencyVars, contVars, persistVars, evalVars>>

\* _send_alert_with_throttling up to the await: the key, `now`, the check.
Throttle(c, a) ==
    /\ apc[c] = "idle"
    /\ LET key == alert_key(a)
           stop == throttled(alert_history, key, clock, a.severity)
       IN  /\ lastAttempt' = [seq |-> 1 - lastAttempt.seq,
                              alert |-> a,
                              age |-> Age(alert_history, key, clock),
                              since |-> Age(dispatched_at, key, clock),
                              dispatched |-> ~stop,
                              after_refusal |-> /\ lastAttempt.alert = a
                                                /\ ~lastAttempt.dispatched,
                              outcome |-> "none"]
           /\ IF stop
              THEN UNCHANGED <<apc, cur>>
              ELSE /\ apc' = [apc EXCEPT ![c] = "send"]
                   /\ cur' = [cur EXCEPT ![c] =
                                [alert |-> a, key |-> key, now |-> clock]]
    /\ UNCHANGED <<firing, slack_webhook, alert_history, clock, dispatched_at,
                   scrapeVars, breakerVars, sessionVars, storeVars, scoreVars, callerVars, dispatchVars, mlVars, urgencyVars, contVars, persistVars, evalVars>>

\* What _send_alert_notification can come to: without a configured channel
\* nothing is sent; with one, the alert is delivered or every send fails.
DeliveryResults ==
    IF email_sender \/ slack_webhook THEN {"delivered", "failed"}
    ELSE {"no_channel"}

\* await self._send_alert_notification(alert): the alert goes to the
\* configured channels; a channel's failure is logged inside, and the call
\* returns whatever became of the alert.
Deliver(c, res) ==
    /\ apc[c] = "send"
    /\ res \in DeliveryResults
    /\ dispatched_at' = Stamp(dispatched_at, cur[c].key, cur[c].now)
    /\ lastAttempt' = [lastAttempt EXCEPT !.outcome = res]
    /\ apc' = [apc EXCEPT ![c] = "record"]
    /\ UNCHANGED <<firing, slack_webhook, alert_history, clock, cur,
                   scrapeVars, breakerVars, sessionVars, storeVars, scoreVars, callerVars, dispatchVars, mlVars, urgencyVars, contVars, persistVars, evalVars>>

\* A mutant: the send is recorded only when a channel delivered the alert.
RecordIfDelivered(c) ==
    /\ apc[c] = "record"
    /\ alert_history' = IF lastAttempt.outcome = "delivered"
                        THEN record_sent(alert_history, cur[c].key, cur[c].now)
                        ELSE alert_history
    /\ apc' = [apc EXCEPT ![c] = "idle"]
    /\ cur' = [cur EXCEPT ![c] = NoAlert]
    /\ UNCHANGED <<firing, slack_webhook, clock, dispatched_at, lastAttempt,
                   scrapeVars, breakerVars, sessionVars, storeVars, scoreVars, callerVars, dispatchVars, mlVars, urgencyVars, contVars, persistVars, evalVars>>

\* self.alert_history[alert_key] = now, and the function returns.
Record(c) ==
    /\ apc[c] = "record"
    /\ alert_history' = record_sent(alert_history, cur[c].key, cur[c].now)
    /\ apc' = [apc EXCEPT ![c] = "idle"]
    /\ cur' = [cur EXCEPT ![c] = NoAlert]
    /\ UNCHANGED <<firing, slack_webhook, clock, dispatched_at, lastAttempt,
                   scrapeVars, breakerVars, sessionVars, storeVars, scoreVars, callerVars, dispatchVars, mlVars, urgencyVars, contVars, persistVars, evalVars>>

\* An hour passes.
ClockTick ==
    /\ clock < MaxClock
    /\ clock' = clock + 1
    /\ UNCHANGED <<firing, slack_webhook, alert_history, apc, cur, dispatched_at,
                   lastAttempt,
                   scrapeVars, breakerVars, sessionVars, storeVars, scoreVars, callerVars, dispatchVars, mlVars, urgencyVars, contVars, persistVars, evalVars>>

\* AlertingSystem.__init__: no alert has been sent.
InitAlertFields ==
    /\ alert_history = [k \in {} |-> 0]
    /\ clock = 0
    /\ apc = [c \in Cycles |-> "idle"]
    /\ cur = [c \in Cycles |-> NoAlert]
    /\ dispatched_at = [k \in {} |-> 0]
    /\ lastAttempt = NoAttempt

\* The evaluators raise nothing.
AlertAtRest == firing = {} /\ slack_webhook = FALSE /\ InitAlertFields

\* The evaluators raise two kinds of alert.
Watchlists == {S \in SUBSET Alerts : Cardinality(S) = 2}

InitAlert ==
    firing \in Watchlists /\ slack_webhook \in BOOLEAN /\ InitAlertFields

\* One evaluation cycle at a time gives its alerts to the throttle.
NextAlert ==
    \/ \E a \in firing : Throttle("c1", a)
    \/ \E res \in {"delivered", "failed", "no_channel"} : Deliver("c1", res)
    \/ Record("c1")
    \/ ClockTick

\* Cycle c is executing between two suspension points.  The only await that
\* suspends inside the throttle is the webhook post of _send_slack_alert:
\* smtplib blocks without yielding, and with no webhook configured the send
\* and the recording follow the check without a suspension.
Running(c) ==
    \/ apc[c] = "send"
    \/ apc[c] = "record" /\ ~slack_webhook

\* The event loop can resume cycle c: no other cycle is executing.
MayRun(c) == \A d \in Cycles \ {c} : ~Running(d)

\* Two evaluation cycles as tasks of one event loop.
NextAlertRace ==
    \/ \E c \in Cycles, a \in firing : MayRun(c) /\ Throttle(c, a)
    \/ \E c \in Cycles, res \in {"delivered", "failed", "no_channel"} :
          MayRun(c) /\ Deliver(c, res)
    \/ \E c \in Cycles : MayRun(c) /\ Record(c)
    \/ clock < MaxRaceClock /\ ClockTick

(***************************************************************************)
(* RFPOpportunity and DatabaseManager.save_opportunity                     *)
(***************************************************************************)
Titles == {"a", "ab"}
Agencies == {"bc", "c"}
Deadlines == {"d"}
Urls == {""}
Descriptions == {"x", "y"}

\* RFPOpportunity(...) built at time t: __post_init__ stamps discovered_at.
RFPOpportunity(title, agency, deadline, url, description, t) ==
    [title |-> title, agency |-> agency, deadline |-> deadline,
     value |-> "v", urgency |-> "medium", contact |-> "", url |-> url,
     description |-> description, keywords |-> <<>>, discovered_at |-> t,
     score |-> 0]

NoOpportunity == RFPOpportunity("", "", "", "", "", 0)

\* hashlib.md5(...).hexdigest(), taken as free of collisions.
md5(content) == "md5:" \o content

\* A mutant: the description takes part in the identity.
generate_hash_with_description(o) ==
    md5(o.title \o o.agency \o o.deadline \o o.url \o o.description)

\* content = f"{self.title}{self.agency}{self.deadline}{self.url}"
generate_hash(o) == md5(o.title \o o.agency \o o.deadline \o o.url)

\* The row INSERT writes for object o at CURRENT_TIMESTAMP t with rowid id;
\* status takes its column default.
Row(o, id, t) ==
    [id |-> id, hash |-> generate_hash(o), title |-> o.title,
     agency |-> o.agency, deadline |-> o.deadline, value |-> o.value,
     urgency |-> o.urgency, contact |-> o.contact, url |-> o.url,
     description |-> o.description, keywords |-> o.keywords,
     score |-> o.score, discovered_at |-> o.discovered_at,
     last_updated |-> t, status |-> "active"]

\* A mutant: a plain INSERT on a table without the UNIQUE constraint.
insert_plain(rows, o, id, t) == rows \cup {Row(o, id, t)}

\* INSERT OR REPLACE with hash UNIQUE: the rows that conflict on hash are
\* deleted, then the new row is inserted.
insert_or_replace(rows, o, id, t) ==
    {r \in rows : r.hash # generate_hash(o)} \cup {Row(o, id, t)}

\* A plugin constructs an opportunity object.
Construct(title, agency, deadline, url, description) ==
    /\ held' = RFPOpportunity(title, agency, deadline, url, description, db_now)
    /\ UNCHANGED <<opportunities_table, next_rowid, db_now, lastSave,
                   scrapeVars, breakerVars, sessionVars, alertVars,
                   scoreVars, callerVars, dispatchVars, mlVars, urgencyVars, contVars, persistVars, evalVars>>

\* save_opportunity(held); db_ok: the connection and the statement succeed.
\* Returns True, or False after logging the exception.
SaveOpportunity(db_ok) ==
    /\ held # NoOpportunity
    /\ next_rowid <= MaxRows
    /\ lastSave' = [seq |-> 1 - lastSave.seq, opp |-> held, ok |-> db_ok,
                    again |-> lastSave.ok /\ lastSave.opp = held]
    /\ IF db_ok
       THEN /\ opportunities_table' =
                  insert_or_replace(opportunities_table, held, next_rowid, db_now)
            /\ next_rowid' = next_rowid + 1
       ELSE UNCHANGED <<opportunities_table, next_rowid>>
    /\ UNCHANGED <<db_now, held, scrapeVars, breakerVars, sessionVars, alertVars,
                   scoreVars, callerVars, dispatchVars, mlVars, urgencyVars, contVars, persistVars, evalVars>>

\* Time passes.
DbTick ==
    /\ db_now < MaxDbNow
    /\ db_now' = db_now + 1
    /\ UNCHANGED <<opportunities_table, next_rowid, held, lastSave,
                   scrapeVars, breakerVars, sessionVars, alertVars,
                   scoreVars, callerVars, dispatchVars, mlVars, urgencyVars, contVars, persistVars, evalVars>>

\* init_database on a new file: the table is empty.
InitStore ==
    /\ opportunities_table = {}
    /\ next_rowid = 1
    /\ db_now = 0
    /\ held = NoOpportunity
    /\ lastSave = [seq |-> 0, opp |-> NoOpportunity, ok |-> FALSE,
                   again |-> FALSE]

NextStore ==
    \/ \E t \in Titles, a \in Agencies, d \in Deadlines, u \in Urls,
          x \in Descriptions : Construct(t, a, d, u, x)
    \/ \E db_ok \in BOOLEAN : SaveOpportunity(db_ok)
    \/ DbTick

(***************************************************************************)
(* RFPScraperEnhanced._score_opportunities                                 *)
(* Weights are in hundredths and scores in ten-thousandths, so that        *)
(* weight * 0.67 is the integer weight * 67.                               *)
(***************************************************************************)
DefaultUrgencyWeight == 300
DefaultValueWeight == 200
DefaultKeywordWeight == 150
DefaultDeadlineWeight == 200
ScoreCap == 100000

DefaultScoring ==
    [urgency_weight |-> DefaultUrgencyWeight,
     value_weight |-> DefaultValueWeight,
     keyword_weight |-> DefaultKeywordWeight,
     deadline_weight |-> DefaultDeadlineWeight]

\* The scoring sections a configuration file can hold: each weight is its
\* default, a larger number or a negative number.  No weight is validated.
ScoringConfigs ==
    [urgency_weight : {DefaultUrgencyWeight, 1000, -100},
     value_weight : {DefaultValueWeight, 1000, -100},
     keyword_weight : {DefaultKeywordWeight, 1000, -100},
     deadline_weight : {DefaultDeadlineWeight, 1000, -100}]

relevant_keywords == <<"payment", "fintech", "technology", "digital", "software">>

\* The words of the texts below that the scorer looks for with `in`, after
\* lower(): a table of the substring test.
Found(text) ==
    CASE text = "Software upgrade" -> {"software"}
      [] text = "Digital payment software" -> {"digital", "payment", "software"}
      [] text = "Fintech payment technology, digital software" ->
            {"fintech", "payment", "technology", "digital", "software"}
      [] text = "$2.5 million" -> {"million"}
      [] text = "50 thousand" -> {"thousand"}
      [] text = "$75K" -> {"k"}
      [] text = "Unknown" -> {"k"}
      [] OTHER -> {}

ScoreTitles ==
    {"Road repair", "Software upgrade", "Digital payment software",
     "Fintech payment technology, digital software"}
ScoreDescriptions == {"", "Software upgrade", "Digital payment software"}
ScoreValues == {"$2.5 million", "50 thousand", "$75K", "Unknown", "Not specified"}
ScoreUrgencies == {"high", "medium", "low"}

\* A deadline text with the value of (deadline_date - datetime.now()).days,
\* or <<>> when strptime raises.
ScoreDeadlines ==
    {[text |-> "Not specified", days |-> <<>>]} \cup
    {[text |-> "date", days |-> <<d>>] : d \in {-1, 3, 7, 8, 30, 31}}

ScoreInputs ==
    [title : ScoreTitles, description : ScoreDescriptions,
     value : ScoreValues, urgency : ScoreUrgencies, deadline : ScoreDeadlines]

urgency_score(w, urgency) ==
    IF urgency = "high" THEN w * 100
    ELSE IF urgency = "medium" THEN w * 67
    ELSE w * 33

value_score(w, value) ==
    IF "million" \in Found(value) THEN w * 100
    ELSE IF Found(value) \cap {"thousand", "k"} # {} THEN w * 50
    ELSE 0

\* A mutant: a match in the description counts like one in the title.
RECURSIVE keyword_score_flat(_, _, _, _)
keyword_score_flat(w, title, description, kws) ==
    IF kws = <<>> THEN 0
    ELSE (IF Head(kws) \in Found(title) THEN w * 100 ELSE 0)
         + (IF Head(kws) \in Found(description) THEN w * 100 ELSE 0)
         + keyword_score_flat(w, title, description, Tail(kws))

\* for keyword in relevant_keywords: ...
RECURSIVE keyword_score(_, _, _, _)
keyword_score(w, title, description, kws) ==
    IF kws = <<>> THEN 0
    ELSE (IF Head(kws) \in Found(title) THEN w * 100 ELSE 0)
         + (IF Head(kws) \in Found(description) THEN w * 50 ELSE 0)
         + keyword_score(w, title, description, Tail(kws))

deadline_score(w, deadline) ==
    IF deadline.days = <<>> THEN 0
    ELSE IF deadline.days[1] <= 7 THEN w * 100
    ELSE IF deadline.days[1] <= 30 THEN w * 50
    ELSE 0

\* The scorer as it would be with a clamp from below as well.
score_opportunity_floored(cfg, o) ==
    LET score == urgency_score(cfg.urgency_weight, o.urgency)
                 + value_score(cfg.value_weight, o.value)
                 + keyword_score(cfg.keyword_weight, o.title, o.description,
                                 relevant_keywords)
                 + deadline_score(cfg.deadline_weight, o.deadline)
    IN  IF score < 0 THEN 0 ELSE IF score < ScoreCap THEN score ELSE ScoreCap

\* The body of the loop: opp.score = min(score, 10.0)
score_opportunity(cfg, o) ==
    LET score == urgency_score(cfg.urgency_weight, o.urgency)
                 + value_score(cfg.value_weight, o.value)
                 + keyword_score(cfg.keyword_weight, o.title, o.description,
                                 relevant_keywords)
                 + deadline_score(cfg.deadline_weight, o.deadline)
    IN  IF score < ScoreCap THEN score ELSE ScoreCap

NotScored == [opp |-> <<>>, score |-> 0]

\* One iteration of the loop of _score_opportunities: the next opportunity
\* of the list is scored.
ScoreOpportunity(o) ==
    /\ scored = NotScored
    /\ scored' = [opp |-> o, score |-> score_opportunity(scoring_config, o)]
    /\ UNCHANGED <<scoring_config, scrapeVars, breakerVars, sessionVars,
                   alertVars, storeVars, callerVars, dispatchVars, mlVars, urgencyVars, contVars, persistVars, evalVars>>

\* The loop moves on to the next opportunity.
ScoreLoop ==
    /\ scored # NotScored
    /\ scored' = NotScored
    /\ UNCHANGED <<scoring_config, scrapeVars, breakerVars, sessionVars,
                   alertVars, storeVars, callerVars, dispatchVars, mlVars, urgencyVars, contVars, persistVars, evalVars>>

ScoreAtRest == scoring_config = DefaultScoring /\ scored = NotScored

InitScore == scoring_config \in ScoringConfigs /\ scored = NotScored

NextScore ==
    \/ \E o \in ScoreInputs : ScoreOpportunity(o)
    \/ ScoreLoop

(***************************************************************************)
(* CircuitBreaker called from several threads.  The class holds no lock;   *)
(* self.failure_count += 1 is a read followed by a write, and func runs    *)
(* between the check and the bookkeeping.                                  *)
(***************************************************************************)
Callers == {"t1", "t2"}

\* wrapper: the OPEN check of caller t; an admitted caller goes on to func.
CallerEnters(t) ==
    /\ tpc[t] = "idle"
    /\ failed_calls < MaxCalls
    /\ LET mid == Admit(Breaker, now)
       IN  IF mid = "REJECTED"
           THEN UNCHANGED <<state, tpc>>
           ELSE /\ state' = mid
                /\ tpc' = [tpc EXCEPT ![t] = "func"]
    /\ UNCHANGED <<failure_threshold, recovery_timeout, failure_count,
                   last_failure_time, now, lastCall, streak, loaded,
                   failed_calls, succeeded, scrapeVars, sessionVars,
                   alertVars, storeVars, scoreVars, dispatchVars, mlVars, urgencyVars, contVars, persistVars, evalVars>>

\* func returns: self.reset().
CallerSucceeds(t) ==
    /\ tpc[t] = "func"
    /\ LET after == reset(Breaker)
       IN  /\ failure_count' = after.failure_count
           /\ state' = after.state
    /\ tpc' = [tpc EXCEPT ![t] = "idle"]
    /\ succeeded' = TRUE
    /\ failed_calls' = 0
    /\ UNCHANGED <<failure_threshold, recovery_timeout, last_failure_time, now,
                   lastCall, streak, loaded, scrapeVars, sessionVars,
                   alertVars, storeVars, scoreVars, dispatchVars, mlVars, urgencyVars, contVars, persistVars, evalVars>>

\* func raises the expected exception: record_failure begins by reading
\* self.failure_count.
CallerFails(t) ==
    /\ tpc[t] = "func"
    /\ loaded' = [loaded EXCEPT ![t] = failure_count]
    /\ tpc' = [tpc EXCEPT ![t] = "storing"]
    /\ UNCHANGED <<breakerVars, failed_calls, succeeded, scrapeVars,
                   sessionVars, alertVars, storeVars, scoreVars, dispatchVars, mlVars, urgencyVars, contVars, persistVars, evalVars>>

\* The increment as it would be if it were atomic: the count is read when
\* it is stored.
StoredCountAtomic(t) == failure_count + 1

\* The value `self.failure_count += 1` stores: the value read, plus one.
StoredCount(t) == loaded[t] + 1

\* record_failure goes on: the count is stored, the time stamped, the
\* threshold tested.
CallerStores(t) ==
    /\ tpc[t] = "storing"
    /\ LET c == StoredCount(t)
       IN  /\ failure_count' = c
           /\ last_failure_time' = <<now>>
           /\ state' = IF c >= failure_threshold THEN "OPEN" ELSE state
    /\ tpc' = [tpc EXCEPT ![t] = "idle"]
    /\ failed_calls' = failed_calls + 1
    /\ UNCHANGED <<failure_threshold, recovery_timeout, now, lastCall, streak,
                   loaded, succeeded, scrapeVars, sessionVars, alertVars,
                   storeVars, scoreVars, dispatchVars, mlVars, urgencyVars, contVars, persistVars, evalVars>>

CallersAtRest ==
    /\ tpc = [t \in Callers |-> "idle"]
    /\ loaded = [t \in Callers |-> 0]
    /\ failed_calls = 0
    /\ succeeded = FALSE

NextCallers ==
    \/ \E t \in Callers : CallerEnters(t)
    \/ \E t \in Callers : CallerSucceeds(t)
    \/ \E t \in Callers : CallerFails(t)
    \/ \E t \in Callers : CallerStores(t)
    \/ Tick

(***************************************************************************)
(* AlertingSystem._send_alert_notification: the fan-out of one alert to    *)
(* the configured channels.                                                *)
(***************************************************************************)
NoOutbox ==
    [alert |-> [metric |-> "", severity |-> ""],
     email |-> "none", slack |-> "none", ended |-> "none"]

\* A mutant: the email channel lets its exception out.
send_email_alert_raising(ok) ==
    [sent |-> IF ok THEN "delivered" ELSE "failed", raised |-> ~ok]

\* _send_email_alert: the SMTP exchange works or raises; the except branch
\* logs the exception and the coroutine returns.
send_email_alert(ok) ==
    [sent |-> IF ok THEN "delivered" ELSE "failed", raised |-> FALSE]

\* _send_slack_alert: the webhook answers 200, answers another status, or
\* the post raises; either failure is logged and the coroutine returns.
send_slack_alert(res) ==
    [sent |-> IF res = "200" THEN "delivered" ELSE "failed", raised |-> FALSE]

\* _send_alert_notification is entered with an alert.
DispatchStart(a) ==
    /\ dpc = "idle"
    /\ dispatches < MaxDispatches
    /\ outbox' = [NoOutbox EXCEPT !.alert = a]
    /\ dpc' = "email"
    /\ UNCHANGED <<email_sender, dispatches, scrapeVars, breakerVars,
                   sessionVars, alertVars, storeVars, scoreVars, callerVars,
                   mlVars, urgencyVars, contVars, persistVars, evalVars>>

\* if self.config.get('email', {}).get('sender_email'): await
\* self._send_email_alert(alert).  An exception that left the channel would
\* end the try block in its except branch.
EmailChannel(ok) ==
    /\ dpc = "email"
    /\ IF email_sender
       THEN LET r == send_email_alert(ok)
            IN  /\ outbox' = [outbox EXCEPT !.email = r.sent]
                /\ dpc' = IF r.raised THEN "done" ELSE "slack"
       ELSE /\ dpc' = "slack"
            /\ UNCHANGED outbox
    /\ UNCHANGED <<email_sender, dispatches, scrapeVars, breakerVars,
                   sessionVars, alertVars, storeVars, scoreVars, callerVars,
                   mlVars, urgencyVars, contVars, persistVars, evalVars>>

\* if slack_webhook: await self._send_slack_alert(alert, slack_webhook)
SlackChannel(res) ==
    /\ dpc = "slack"
    /\ IF slack_webhook
       THEN LET r == send_slack_alert(res)
            IN  outbox' = [outbox EXCEPT !.slack = r.sent]
       ELSE UNCHANGED outbox
    /\ dpc' = "done"
    /\ UNCHANGED <<email_sender, dispatches, scrapeVars, breakerVars,
                   sessionVars, alertVars, storeVars, scoreVars, callerVars,
                   mlVars, urgencyVars, contVars, persistVars, evalVars>>

\* The try block or its `except Exception` branch ends with a log line and
\* the coroutine returns to _send_alert_with_throttling.
DispatchReturn ==
    /\ dpc = "done"
    /\ outbox' = [outbox EXCEPT !.ended = "returned"]
    /\ dpc' = "idle"
    /\ dispatches' = dispatches + 1
    /\ UNCHANGED <<email_sender, scrapeVars, breakerVars, sessionVars,
                   alertVars, storeVars, scoreVars, callerVars,
                   mlVars, urgencyVars, contVars, persistVars, evalVars>>

InitDispatchFields ==
    /\ dpc = "idle"
    /\ outbox = NoOutbox
    /\ dispatches = 0

DispatchAtRest == email_sender = FALSE /\ InitDispatchFields

InitDispatch == email_sender \in BOOLEAN /\ InitDispatchFields

\* The alerting configuration of a deployment that raises no alert by itself.
InitAlertChannels ==
    firing = {} /\ slack_webhook \in BOOLEAN /\ InitAlertFields

NextDispatch ==
    \/ \E a \in Alerts : DispatchStart(a)
    \/ \E ok \in BOOLEAN : EmailChannel(ok)
    \/ \E res \in {"200", "500", "error"} : SlackChannel(res)
    \/ DispatchReturn

(***************************************************************************)
(* MLOpportunityScorer.score_opportunity (src/ml/opportunity_scorer.py),   *)
(* scores in ten-thousandths like those of _score_opportunities.           *)
(***************************************************************************)

\* re.findall(r'\d+(?:\.\d+)?', value_str)[0] of the value texts, in tenths;
\* <<>> when the text holds no number.
FirstNumber(value) ==
    CASE value = "$2.5 million" -> <<25>>
      [] value = "50 thousand" -> <<500>>
      [] value = "$75K" -> <<750>>
      [] OTHER -> <<>>

\* The value texts that hold the letter m after lower().
HasLetterM(value) == value = "$2.5 million"

\* _extract_numeric_value, in tenths.
extract_numeric_value(value) ==
    IF FirstNumber(value) = <<>> THEN 0
    ELSE IF "million" \in Found(value) \/ HasLetterM(value)
         THEN FirstNumber(value)[1] * 1000000
    ELSE IF Found(value) \cap {"thousand", "k"} # {}
         THEN FirstNumber(value)[1] * 1000
    ELSE FirstNumber(value)[1]

\* The keyword loop of _fallback_scoring over title + ' ' + description.
RECURSIVE fallback_keywords(_, _, _)
fallback_keywords(title, description, kws) ==
    IF kws = <<>> THEN 0
    ELSE (IF Head(kws) \in Found(title) \cup Found(description)
          THEN 5000 ELSE 0)
         + fallback_keywords(title, description, Tail(kws))

\* _fallback_scoring
fallback_scoring(o) ==
    LET u == IF o.urgency = "high" THEN 30000
             ELSE IF o.urgency = "medium" THEN 20000 ELSE 10000
        n == extract_numeric_value(o.value)
        v == IF n > 10000000 THEN 30000
             ELSE IF n > 1000000 THEN 20000
             ELSE IF n > 100000 THEN 10000 ELSE 0
        k == fallback_keywords(o.title, o.description,
                               <<"technology", "software", "digital",
                                 "payment", "fintech">>)
        score == u + v + k
    IN  IF score < ScoreCap THEN score ELSE ScoreCap

\* What the scorer meets: sklearn cannot be imported, no model has been
\* trained or loaded, the prediction raises, or the model predicts.
MLModes == {"libs_missing", "untrained", "predict_raises", "predicts"}

\* The weighted class scores a trained classifier can give.
MLRawScores == {20000, 55000, 85000}

\* MLOpportunityScorer.score_opportunity
ml_score_opportunity(o, mode, raw) ==
    IF mode \in {"libs_missing", "untrained"} THEN fallback_scoring(o)
    ELSE IF mode = "predict_raises" THEN fallback_scoring(o)
    ELSE IF raw < 0 THEN 0 ELSE IF raw < ScoreCap THEN raw ELSE ScoreCap

NotMLScored == [opp |-> <<>>, mode |-> "", score |-> 0]

\* One call of MLOpportunityScorer.score_opportunity.
MLScoreOpportunity(o, mode, raw) ==
    /\ ml_scored = NotMLScored
    /\ ml_scored' = [opp |-> o, mode |-> mode,
                     score |-> ml_score_opportunity(o, mode, raw)]
    /\ UNCHANGED <<scrapeVars, breakerVars, sessionVars, alertVars, storeVars,
                   scoreVars, callerVars, dispatchVars,
                   urgencyVars, contVars, persistVars, evalVars>>

\* The caller has taken the score.
MLScoreTaken ==
    /\ ml_scored # NotMLScored
    /\ ml_scored' = NotMLScored
    /\ UNCHANGED <<scrapeVars, breakerVars, sessionVars, alertVars, storeVars,
                   scoreVars, callerVars, dispatchVars,
                   urgencyVars, contVars, persistVars, evalVars>>

MLAtRest == ml_scored = NotMLScored

NextML ==
    \/ \E o \in ScoreInputs, mode \in MLModes, raw \in MLRawScores :
          MLScoreOpportunity(o, mode, raw)
    \/ MLScoreTaken

(***************************************************************************)
(* The plugins' urgency derivation: BaseRFPPlugin.determine_urgency        *)
(* (src/plugins/base_plugin.py), used by govtech_scraper, and              *)
(* RFPPlugin._calculate_federal_urgency (plugins/federal_opportunities.py).*)
(***************************************************************************)
UrgencyPlugins == {"govtech_scraper", "federal_opportunities"}

\* The deadline texts a plugin meets: empty, not in the format %Y-%m-%d, or
\* the date of day d.
DeadlineTexts ==
    {[kind |-> "empty", day |-> 0], [kind |-> "unparseable", day |-> 0]}
        \cup {[kind |-> "date", day |-> d] : d \in 0..MaxDeadlineDay}

\* (deadline_date - datetime.now()).days: the deadline is midnight of its
\* day, and timedelta.days rounds towards minus infinity.
days_until(deadline, t) == deadline.day - t.day - (IF t.late THEN 1 ELSE 0)

\* BaseRFPPlugin.determine_urgency
determine_urgency(deadline, t) ==
    IF deadline.kind = "empty" THEN "medium"
    ELSE IF deadline.kind = "unparseable" THEN "medium"
    ELSE IF days_until(deadline, t) <= 7 THEN "high"
    ELSE IF days_until(deadline, t) <= 30 THEN "medium"
    ELSE "low"

\* A mutant: the federal plugin uses the thresholds of the base plugin.
calculate_federal_urgency_as_base(deadline, t) == determine_urgency(deadline, t)

\* RFPPlugin._calculate_federal_urgency
calculate_federal_urgency(deadline, t) ==
    IF deadline.kind = "empty" THEN "medium"
    ELSE IF deadline.kind = "unparseable" THEN "medium"
    ELSE IF days_until(deadline, t) <= 10 THEN "high"
    ELSE IF days_until(deadline, t) <= 30 THEN "medium"
    ELSE "low"

NotDerived ==
    [plugin |-> "", deadline |-> [kind |-> "", day |-> 0], at |-> <<>>,
     urgency |-> ""]

\* A plugin builds an opportunity and derives its urgency from the deadline.
DeriveUrgency(plugin, deadline) ==
    /\ derived' = [plugin |-> plugin, deadline |-> deadline, at |-> <<today>>,
                   urgency |-> IF plugin = "federal_opportunities"
                               THEN calculate_federal_urgency(deadline, today)
                               ELSE determine_urgency(deadline, today)]
    /\ UNCHANGED <<today, scrapeVars, breakerVars, sessionVars, alertVars,
                   storeVars, scoreVars, callerVars, dispatchVars, mlVars,
                   contVars, persistVars, evalVars>>

\* Time passes: midnight is left behind, or the next day begins.
TodayTick ==
    /\ today.day < MaxToday \/ ~today.late
    /\ today' = IF today.late THEN [day |-> today.day + 1, late |-> FALSE]
                ELSE [today EXCEPT !.late = TRUE]
    /\ UNCHANGED <<derived, scrapeVars, breakerVars, sessionVars, alertVars,
                   storeVars, scoreVars, callerVars, dispatchVars, mlVars,
                   contVars, persistVars, evalVars>>

UrgencyAtRest == today = [day |-> 0, late |-> FALSE] /\ derived = NotDerived

NextUrgency ==
    \/ \E plugin \in UrgencyPlugins, deadline \in DeadlineTexts :
          DeriveUrgency(plugin, deadline)
    \/ TodayTick

(***************************************************************************)
(* RFPScraperEnhanced.run_continuous: the schedule creates a task per run; *)
(* the tasks and run_continuous share one event loop, which runs a task    *)
(* from one suspension point to the next.                                  *)
(***************************************************************************)

\* What a run meets on its way to its first await: whether the database
\* file can be opened, and whether the system is healthy.
ProbeEnvs == [healthy : BOOLEAN, db_up : BOOLEAN]

\* A mutant: the module imports sqlite3.
reaches_probe_resolving(e) == e.db_up

\* The run reaches the first await that suspends, the connectivity probe of
\* _health_check.  Before it come only calls that do not yield, and the
\* first of them, sqlite3.connect, needs the global name sqlite3.
reaches_probe(e) == "sqlite3" \in ModuleGlobals /\ e.db_up

NewJob == [st |-> "created", env |-> <<>>]

\* Four hours have passed since the job last ran.
IntervalElapses ==
    /\ ~due
    /\ cpc = "sleeping"
    /\ Len(jobs) < MaxScheduled
    /\ due' = TRUE
    /\ UNCHANGED <<running, cpc, jobs, scrapeVars, breakerVars, sessionVars,
                   alertVars, storeVars, scoreVars, callerVars, dispatchVars,
                   mlVars, urgencyVars,
                   persistVars, evalVars>>

\* One turn of `while self.running: schedule.run_pending(); await
\* asyncio.sleep(60)`: a due job runs, which creates a task for a run.
ContinuousTurn ==
    /\ cpc = "sleeping"
    /\ IF ~running
       THEN /\ cpc' = "stopped"
            /\ UNCHANGED <<due, jobs>>
       ELSE /\ due
            /\ due' = FALSE
            /\ jobs' = Append(jobs, NewJob)
            /\ UNCHANGED cpc
    /\ UNCHANGED <<running, scrapeVars, breakerVars, sessionVars, alertVars,
                   storeVars, scoreVars, callerVars, dispatchVars, mlVars,
                   urgencyVars,
                   persistVars, evalVars>>

\* The event loop gives task i a turn.  A task just created starts
\* run_scraping_session, which runs up to its first suspension, or to its
\* end when nothing on its way suspends (the session is then finalized and
\* recorded in the same turn); a suspended task runs on to the end of its
\* finally block.
JobTurn(i, e) ==
    /\ i \in DOMAIN jobs
    /\ jobs[i].st # "finalized"
    /\ jobs' = [jobs EXCEPT ![i] =
                  IF jobs[i].st = "created"
                  THEN [st |-> IF reaches_probe(e)
                               THEN "suspended" ELSE "finalized",
                        env |-> <<e>>]
                  ELSE [jobs[i] EXCEPT !.st = "finalized"]]
    /\ UNCHANGED <<running, cpc, due, scrapeVars, breakerVars, sessionVars,
                   alertVars, storeVars, scoreVars, callerVars, dispatchVars,
                   mlVars, urgencyVars,
                   persistVars, evalVars>>

\* _signal_handler: SIGTERM or SIGINT arrives.
SignalHandler ==
    /\ running
    /\ running' = FALSE
    /\ UNCHANGED <<cpc, due, jobs, scrapeVars, breakerVars, sessionVars,
                   alertVars, storeVars, scoreVars, callerVars, dispatchVars,
                   mlVars, urgencyVars,
                   persistVars, evalVars>>

ContinuousAtRest ==
    /\ running = TRUE
    /\ cpc = "sleeping"
    /\ due = FALSE
    /\ jobs = <<>>

NextContinuous ==
    \/ IntervalElapses
    \/ ContinuousTurn
    \/ \E i \in 1..MaxScheduled, e \in ProbeEnvs : JobTurn(i, e)
    \/ SignalHandler

(***************************************************************************)
(* run_scraping_session, lines 122-133: the merged list is scored in place *)
(* and saved one opportunity after another.  Each run modelled here starts *)
(* on a new database file, so that two runs differ in nothing but the list *)
(* they were given.                                                        *)
(***************************************************************************)
\* The opportunities the plugins return: two that share title, agency,
\* deadline and url and differ in their description, and a third one.
MergedPool ==
    {[RFPOpportunity("Software upgrade", "bc", "Not specified", "", x, 0)
         EXCEPT !.value = "$75K", !.urgency = "high"]
        : x \in {"", "Digital payment software"}}
    \cup {RFPOpportunity("Road repair", "c", "Not specified", "", "", 0)}

\* The lists scrape_all_sources can return, at most MaxRows long.
RECURSIVE ListsOf(_, _)
ListsOf(S, n) ==
    IF n = 0 THEN {<<>>}
    ELSE ListsOf(S, n - 1)
         \cup {Append(l, o) : l \in {m \in ListsOf(S, n - 1) : Len(m) = n - 1},
                              o \in S}

\* What _score_opportunities reads of an opportunity.  strptime raises on a
\* deadline that is not %Y-%m-%d and the except clause passes.
ScoreView(o) ==
    [title |-> o.title, description |-> o.description, value |-> o.value,
     urgency |-> o.urgency,
     deadline |-> [text |-> o.deadline, days |-> <<>>]]

\* self._score_opportunities(opportunities): every object of the list gets
\* its score attribute set.
score_opportunities(cfg, opps) ==
    [i \in DOMAIN opps |->
        [opps[i] EXCEPT !.score = score_opportunity(cfg, ScoreView(opps[i]))]]

NoRun == [list |-> <<>>, scored |-> <<>>, rows |-> {}, clean |-> FALSE]

\* `if opportunities:` is true.  The database file is new.
MergedGiven(list) ==
    /\ ppc = "idle"
    /\ list # <<>>
    /\ ppc' = "score"
    /\ given' = list
    /\ scored_opps' = list
    /\ opp_index' = 1
    /\ found' = 0
    /\ clean' = TRUE
    /\ opportunities_table' = {}
    /\ next_rowid' = 1
    /\ UNCHANGED <<prior, db_now, held, lastSave, scrapeVars, breakerVars,
                   sessionVars, alertVars, scoreVars, callerVars, dispatchVars,
                   mlVars, urgencyVars, contVars, evalVars>>

\* self._score_opportunities(opportunities): the whole loop; it touches
\* nothing but the objects of the list.
ScoreOpportunities ==
    /\ ppc = "score"
    /\ scored_opps' = score_opportunities(scoring_config, scored_opps)
    /\ ppc' = "save"
    /\ UNCHANGED <<given, opp_index, found, clean, prior, storeVars,
                   scrapeVars, breakerVars, sessionVars, alertVars, scoreVars,
                   callerVars, dispatchVars, mlVars, urgencyVars, contVars, evalVars>>

\* One iteration of `for opp in opportunities`:
\* if self.db_manager.save_opportunity(opp): saved_count += 1
SaveNext(db_ok) ==
    /\ ppc = "save"
    /\ opp_index <= Len(scored_opps)
    /\ IF db_ok
       THEN /\ opportunities_table' =
                  insert_or_replace(opportunities_table,
                                    scored_opps[opp_index], next_rowid, db_now)
            /\ next_rowid' = next_rowid + 1
            /\ found' = found + 1
            /\ UNCHANGED clean
       ELSE /\ clean' = FALSE
            /\ UNCHANGED <<opportunities_table, next_rowid, found>>
    /\ opp_index' = opp_index + 1
    /\ UNCHANGED <<ppc, given, scored_opps, prior, db_now, held, lastSave,
                   scrapeVars, breakerVars, sessionVars, alertVars, scoreVars,
                   callerVars, dispatchVars, mlVars, urgencyVars, contVars, evalVars>>

\* The loop is over: session.opportunities_found = saved_count
SavesDone ==
    /\ ppc = "save"
    /\ opp_index > Len(scored_opps)
    /\ ppc' = "done"
    /\ UNCHANGED <<given, scored_opps, opp_index, found, clean, prior,
                   storeVars, scrapeVars, breakerVars, sessionVars, alertVars,
                   scoreVars, callerVars, dispatchVars, mlVars, urgencyVars,
                   contVars, evalVars>>

\* The run is over; what it was given and what it stored are remembered.
RunOver ==
    /\ ppc = "done"
    /\ ppc' = "idle"
    /\ prior' = [list |-> given, scored |-> scored_opps,
                 rows |-> opportunities_table, clean |-> clean]
    /\ UNCHANGED <<given, scored_opps, opp_index, found, clean, storeVars,
                   scrapeVars, breakerVars, sessionVars, alertVars, scoreVars,
                   callerVars, dispatchVars, mlVars, urgencyVars, contVars, evalVars>>

\* CURRENT_TIMESTAMP moves on between two statements.
PersistTick ==
    /\ ppc = "save"
    /\ db_now < MaxDbNow
    /\ db_now' = db_now + 1
    /\ UNCHANGED <<opportunities_table, next_rowid, held, lastSave,
                   persistVars, scrapeVars, breakerVars, sessionVars,
                   alertVars, scoreVars, callerVars, dispatchVars, mlVars,
                   urgencyVars, contVars, evalVars>>

PersistAtRest ==
    /\ ppc = "idle"
    /\ given = <<>>
    /\ scored_opps = <<>>
    /\ opp_index = 1
    /\ found = 0
    /\ clean = TRUE
    /\ prior = NoRun

NextPersist ==
    \/ \E list \in ListsOf(MergedPool, MaxRows) : MergedGiven(list)
    \/ ScoreOpportunities
    \/ \E db_ok \in BOOLEAN : SaveNext(db_ok)
    \/ SavesDone
    \/ RunOver
    \/ PersistTick

(***************************************************************************)
(* AlertingSystem._check_health_alerts and _check_success_rate_alerts.     *)
(* Scores and rates are percentages in tenths: 49.9 is 499.                *)
(***************************************************************************)
Scores == 0..MaxScore

\* Alert(severity=..., message=..., metric=..., value=...)
Alert(severity, metric, value) ==
    [severity |-> severity, metric |-> metric, value |-> value]

\* A mutant: the second test is an `if` of its own.
check_health_alerts_unchained(health_score) ==
    (IF health_score < 500
     THEN <<Alert("critical", "health_score", health_score)>> ELSE <<>>)
    \o (IF health_score < 800
        THEN <<Alert("warning", "health_score", health_score)>> ELSE <<>>)

\* if health_score < 50: ... elif health_score < 80: ...; return alerts
check_health_alerts(health_score) ==
    IF health_score < 500
    THEN <<Alert("critical", "health_score", health_score)>>
    ELSE IF health_score < 800
    THEN <<Alert("warning", "health_score", health_score)>>
    ELSE <<>>

\* if success_rate < 70: ... elif success_rate < 90: ...; return alerts
check_success_rate_alerts(success_rate) ==
    IF success_rate < 700
    THEN <<Alert("critical", "success_rate", success_rate)>>
    ELSE IF success_rate < 900
    THEN <<Alert("warning", "success_rate", success_rate)>>
    ELSE <<>>

NotEvaluated == [evaluator |-> "", arg |-> 0, alerts |-> <<>>]

\* alerts.extend(self._check_health_alerts(health_score))
CheckHealthAlerts(health_score) ==
    /\ evaluated = NotEvaluated
    /\ evaluated' = [evaluator |-> "health_score", arg |-> health_score,
                     alerts |-> check_health_alerts(health_score)]
    /\ UNCHANGED <<scrapeVars, breakerVars, sessionVars, alertVars, storeVars,
                   scoreVars, callerVars, dispatchVars, mlVars, urgencyVars,
                   contVars, persistVars>>

\* alerts.extend(self._check_success_rate_alerts(app_metrics['success_rate_24h']))
CheckSuccessRateAlerts(success_rate) ==
    /\ evaluated = NotEvaluated
    /\ evaluated' = [evaluator |-> "success_rate", arg |-> success_rate,
                     alerts |-> check_success_rate_alerts(success_rate)]
    /\ UNCHANGED <<scrapeVars, breakerVars, sessionVars, alertVars, storeVars,
                   scoreVars, callerVars, dispatchVars, mlVars, urgencyVars,
                   contVars, persistVars>>

\* alerts.extend(...): the caller has taken the returned list.
AlertsExtended ==
    /\ evaluated # NotEvaluated
    /\ evaluated' = NotEvaluated
    /\ UNCHANGED <<scrapeVars, breakerVars, sessionVars, alertVars, storeVars,
                   scoreVars, callerVars, dispatchVars, mlVars, urgencyVars,
                   contVars, persistVars>>

EvalAtRest == evaluated = NotEvaluated

\* The histories the evaluators are called with: none, or some keys sent.
EvalHistories ==
    {[k \in K |-> 0] :
        K \in SUBSET {"health_score_critical", "success_rate_warning"}}

InitEval ==
    /\ firing = {} /\ slack_webhook = FALSE
    /\ alert_history \in EvalHistories
    /\ clock = 0
    /\ apc = [c \in Cycles |-> "idle"]
    /\ cur = [c \in Cycles |-> NoAlert]
    /\ dispatched_at = [k \in {} |-> 0]
    /\ lastAttempt = NoAttempt
    /\ EvalAtRest

NextEval ==
    \/ \E health_score \in Scores : CheckHealthAlerts(health_score)
    \/ \E success_rate \in Scores : CheckSuccessRateAlerts(success_rate)
    \/ AlertsExtended

(***************************************************************************)
(* Specifications: one per component, the other components at rest         *)
(***************************************************************************)
ScrapeAtRest ==
    /\ plugin_dir = StandardDir(PluginNames)
    /\ plugins = Loaded(plugin_dir) /\ lastReload = NoReload
    /\ enabled = <<>> /\ tasks = <<>>
    /\ spc = "idle" /\ opportunities = <<>> /\ first_done = 0

InitScrapeSpec ==
    InitPlugins /\ InitBreakerDefault /\ InitSession /\ AlertAtRest
    /\ InitStore /\ ScoreAtRest /\ CallersAtRest /\ DispatchAtRest /\ MLAtRest /\ UrgencyAtRest /\ ContinuousAtRest /\ PersistAtRest /\ EvalAtRest
SpecScrape == InitScrapeSpec /\ [][NextScrape]_vars

\* The event loop at work: a wait_for timer that is due fires, and a gather
\* whose tasks are all done resumes its caller.
FairScrape ==
    /\ WF_vars(\E i \in 1..MaxEnabled : FetchTimeout(i))
    /\ WF_vars(GatherReturn)
InitScrapeFairSpec ==
    InitTwoPlugins /\ InitBreakerDefault /\ InitSession /\ AlertAtRest
    /\ InitStore /\ ScoreAtRest /\ CallersAtRest /\ DispatchAtRest /\ MLAtRest /\ UrgencyAtRest /\ ContinuousAtRest /\ PersistAtRest /\ EvalAtRest
SpecScrapeFair == InitScrapeFairSpec /\ [][NextScrape]_vars /\ FairScrape

InitRegistrySpec ==
    InitPlugins /\ InitBreakerDefault /\ InitSession /\ AlertAtRest
    /\ InitStore /\ ScoreAtRest /\ CallersAtRest /\ DispatchAtRest /\ MLAtRest /\ UrgencyAtRest /\ ContinuousAtRest /\ PersistAtRest /\ EvalAtRest
SpecRegistry == InitRegistrySpec /\ [][NextRegistry]_vars

InitBreakerSpec == ScrapeAtRest /\ InitBreaker /\ InitSession /\ AlertAtRest
    /\ InitStore /\ ScoreAtRest /\ CallersAtRest /\ DispatchAtRest /\ MLAtRest /\ UrgencyAtRest /\ ContinuousAtRest /\ PersistAtRest /\ EvalAtRest
SpecBreaker == InitBreakerSpec /\ [][NextBreaker]_vars

InitSessionSpec ==
    ScrapeAtRest /\ InitBreakerDefault /\ InitSession /\ AlertAtRest
    /\ InitStore /\ ScoreAtRest /\ CallersAtRest /\ DispatchAtRest /\ MLAtRest /\ UrgencyAtRest /\ ContinuousAtRest /\ PersistAtRest /\ EvalAtRest
SpecSession == InitSessionSpec /\ [][NextSession]_vars

InitAlertSpec == ScrapeAtRest /\ InitBreakerDefault /\ InitSession /\ InitAlert
    /\ InitStore /\ ScoreAtRest /\ CallersAtRest /\ DispatchAtRest /\ MLAtRest /\ UrgencyAtRest /\ ContinuousAtRest /\ PersistAtRest /\ EvalAtRest
SpecAlert == InitAlertSpec /\ [][NextAlert]_vars

InitStoreSpec ==
    ScrapeAtRest /\ InitBreakerDefault /\ InitSession /\ AlertAtRest
    /\ InitStore /\ ScoreAtRest /\ CallersAtRest /\ DispatchAtRest /\ MLAtRest /\ UrgencyAtRest /\ ContinuousAtRest /\ PersistAtRest /\ EvalAtRest
SpecStore == InitStoreSpec /\ [][NextStore]_vars

InitScoreSpec ==
    ScrapeAtRest /\ InitBreakerDefault /\ InitSession /\ AlertAtRest
    /\ InitStore /\ InitScore /\ CallersAtRest /\ DispatchAtRest /\ MLAtRest /\ UrgencyAtRest /\ ContinuousAtRest /\ PersistAtRest /\ EvalAtRest
SpecScore == InitScoreSpec /\ [][NextScore]_vars

InitCallersSpec ==
    ScrapeAtRest /\ InitBreaker /\ InitSession /\ AlertAtRest
    /\ InitStore /\ ScoreAtRest /\ CallersAtRest /\ DispatchAtRest /\ MLAtRest /\ UrgencyAtRest /\ ContinuousAtRest /\ PersistAtRest /\ EvalAtRest
SpecCallers == InitCallersSpec /\ [][NextCallers]_vars

InitDispatchSpec ==
    ScrapeAtRest /\ InitBreakerDefault /\ InitSession /\ InitAlertChannels
    /\ InitStore /\ ScoreAtRest /\ CallersAtRest /\ InitDispatch /\ MLAtRest /\ UrgencyAtRest /\ ContinuousAtRest /\ PersistAtRest /\ EvalAtRest
SpecDispatch == InitDispatchSpec /\ [][NextDispatch]_vars

InitMLSpec ==
    ScrapeAtRest /\ InitBreakerDefault /\ InitSession /\ AlertAtRest
    /\ InitStore /\ ScoreAtRest /\ CallersAtRest /\ DispatchAtRest /\ MLAtRest /\ UrgencyAtRest /\ ContinuousAtRest /\ PersistAtRest /\ EvalAtRest
SpecML == InitMLSpec /\ [][NextML]_vars

InitUrgencySpec ==
    ScrapeAtRest /\ InitBreakerDefault /\ InitSession /\ AlertAtRest
    /\ InitStore /\ ScoreAtRest /\ CallersAtRest /\ DispatchAtRest /\ MLAtRest
    /\ UrgencyAtRest /\ ContinuousAtRest /\ PersistAtRest /\ EvalAtRest
SpecUrgency == InitUrgencySpec /\ [][NextUrgency]_vars

InitContinuousSpec ==
    ScrapeAtRest /\ InitBreakerDefault /\ InitSession /\ AlertAtRest
    /\ InitStore /\ ScoreAtRest /\ CallersAtRest /\ DispatchAtRest /\ MLAtRest
    /\ UrgencyAtRest /\ ContinuousAtRest /\ PersistAtRest /\ EvalAtRest
SpecContinuous == InitContinuousSpec /\ [][NextContinuous]_vars

InitAlertRaceSpec ==
    ScrapeAtRest /\ InitBreakerDefault /\ InitSession /\ InitAlert
    /\ InitStore /\ ScoreAtRest /\ CallersAtRest /\ DispatchAtRest /\ MLAtRest /\ UrgencyAtRest /\ ContinuousAtRest /\ PersistAtRest /\ EvalAtRest
SpecAlertRace == InitAlertRaceSpec /\ [][NextAlertRace]_vars

InitPersistSpec ==
    ScrapeAtRest /\ InitBreakerDefault /\ InitSession /\ AlertAtRest
    /\ InitStore /\ ScoreAtRest /\ CallersAtRest /\ DispatchAtRest /\ MLAtRest
    /\ UrgencyAtRest /\ ContinuousAtRest /\ PersistAtRest /\ EvalAtRest
SpecPersist == InitPersistSpec /\ [][NextPersist]_vars

InitEvalSpec ==
    ScrapeAtRest /\ InitBreakerDefault /\ InitSession /\ InitEval
    /\ InitStore /\ ScoreAtRest /\ CallersAtRest /\ DispatchAtRest /\ MLAtRest
    /\ UrgencyAtRest /\ ContinuousAtRest /\ PersistAtRest
SpecEval == InitEvalSpec /\ [][NextEval]_vars

(***************************************************************************)
(* Claims about scrape_all_sources                                         *)
(***************************************************************************)
ScrapeOver == spc \in {"returned", "raised"}

Occurrences(r, seq) == Cardinality({k \in DOMAIN seq : seq[k] = r})

\* The records task i returned are all in the merged result, once each.
AllMerged(i) ==
    \A k \in DOMAIN tasks[i].result.val :
        Occurrences(tasks[i].result.val[k], opportunities) = 1

\* No record of the merged result comes from task i.
NoneMerged(i) == \A k \in DOMAIN opportunities : opportunities[k][2] # i

\* C1: when the fetch of a task exceeds the per-plugin timeout while the
\* other fetches return lists, only that task's fetch is cancelled, the
\* others run to completion, the merged result holds all their records and
\* none of the timed-out task, and scrape_all_sources returns normally.
C1_TimeoutIsolation ==
    /\ \A i \in DOMAIN tasks : tasks[i].cancelled => tasks[i].ev = "timer"
    /\ (ScrapeOver /\ \E i \in DOMAIN tasks : tasks[i].ev = "timer") =>
          /\ \A i \in DOMAIN tasks :
                /\ tasks[i].ev = "timer" => NoneMerged(i)
                /\ tasks[i].ev = "returned" =>
                      ~tasks[i].cancelled /\ tasks[i].st = "done" /\ AllMerged(i)
          /\ (\A i \in DOMAIN tasks : tasks[i].ev \in {"timer", "returned"}) =>
                spc = "returned"

C1_Witness ==
    /\ spc = "returned"
    /\ Len(tasks) = 3
    /\ \E p, q, r \in DOMAIN tasks :
          /\ Cardinality({tasks[p].plugin, tasks[q].plugin, tasks[r].plugin}) = 3
          /\ tasks[p].ev = "timer" /\ tasks[p].cancelled
          /\ tasks[q].ev = "returned" /\ Len(tasks[q].result.val) >= 1
          /\ tasks[r].ev = "returned" /\ Len(tasks[r].result.val) >= 1
    /\ Len(opportunities) >= 2

\* C2: when the fetch of an enabled plugin raises, scrape_all_sources still
\* returns normally and the merged result holds every record returned by
\* every other task.
C2_ExceptionIsolation ==
    (ScrapeOver /\ \E i \in DOMAIN tasks : tasks[i].ev \in {"raised", "raised_timeout"}) =>
        /\ spc = "returned"
        /\ \A j \in DOMAIN tasks : tasks[j].ev = "returned" => AllMerged(j)

C2_Witness ==
    /\ spc = "returned"
    /\ \E i, j \in DOMAIN tasks :
          /\ tasks[i].ev = "raised"
          /\ tasks[j].ev = "returned" /\ Len(tasks[j].result.val) >= 1
    /\ Len(opportunities) >= 1

(***************************************************************************)
(* Claims about the circuit breaker                                        *)
(***************************************************************************)

\* C5: from CLOSED with failure count 0 and threshold N >= 1, after N
\* consecutive wrapped calls that raise the configured exception the state is
\* OPEN, and after fewer than N it is still CLOSED.
C5_OpensAtThreshold ==
    /\ streak < failure_threshold =>
          state = "CLOSED" /\ failure_count = streak
    /\ (lastCall.res = "failure" /\ streak = failure_threshold) =>
          state = "OPEN"

C5_Witness ==
    /\ failure_threshold >= 2
    /\ lastCall.res = "failure"
    /\ streak = failure_threshold
    /\ state = "OPEN"

\* C6: a call made while the breaker is OPEN and the time since the last
\* failure is at most recovery_timeout (the boundary included) is rejected
\* and the wrapped operation is not invoked.
C6_RejectsWhileOpen ==
    (lastCall.pre = "OPEN" /\ lastCall.elapsed <= recovery_timeout) =>
        lastCall.res = "rejected" /\ ~lastCall.invoked

C6_Witness ==
    /\ recovery_timeout >= 1
    /\ lastCall.pre = "OPEN"
    /\ lastCall.elapsed = recovery_timeout
    /\ lastCall.res = "rejected"

\* C7: a call made while the breaker is OPEN and more than recovery_timeout
\* after the last failure moves the breaker to HALF_OPEN and invokes the
\* operation; if it succeeds the breaker ends CLOSED with failure count 0;
\* a successful call made in CLOSED also leaves failure count 0.
C7_RecoveryAndReset ==
    /\ (lastCall.pre = "OPEN" /\ lastCall.elapsed > recovery_timeout) =>
          /\ lastCall.mid = "HALF_OPEN"
          /\ lastCall.invoked
          /\ lastCall.res = "ok" => state = "CLOSED" /\ failure_count = 0
    /\ (lastCall.pre = "CLOSED" /\ lastCall.res = "ok") =>
          state = "CLOSED" /\ failure_count = 0

C7_Witness ==
    /\ lastCall.pre = "OPEN"
    /\ lastCall.elapsed > recovery_timeout
    /\ lastCall.mid = "HALF_OPEN"
    /\ lastCall.res = "ok"
    /\ state = "CLOSED"
    /\ failure_count = 0

\* C8: when the operation raises the configured exception while the breaker
\* is HALF_OPEN, the breaker is OPEN afterwards and its last-failure time is
\* the time of that failure, so the next call, if made within
\* recovery_timeout of it, is rejected without invoking the operation.
C8_HalfOpenFailureReopens ==
    /\ []((lastCall.mid = "HALF_OPEN" /\ lastCall.res = "failure") =>
            state = "OPEN" /\ last_failure_time = <<lastCall.t1>>)
    /\ [][(/\ lastCall.mid = "HALF_OPEN"
           /\ lastCall.res = "failure"
           /\ lastCall'.seq # lastCall.seq
           /\ lastCall'.t0 - lastCall.t1 <= recovery_timeout) =>
              lastCall'.res = "rejected" /\ ~lastCall'.invoked]_vars

C8_Witness ==
    /\ lastCall.pre = "OPEN"
    /\ lastCall.mid = "HALF_OPEN"
    /\ lastCall.res = "failure"
    /\ lastCall.t1 > lastCall.t0
    /\ state = "OPEN"
    /\ last_failure_time = <<lastCall.t1>>

(***************************************************************************)
(* Claims about run_scraping_session                                       *)
(***************************************************************************)

\* plugins.enabled = [A, B], A returns 3 opportunities, B times out, and
\* nothing else is wrong: the system is healthy and every collaborator works.
C3_Scenario ==
    /\ env.enabled = <<"A", "B">>
    /\ env.plan["A"] = [ev |-> "returned", n |-> 3]
    /\ env.plan["B"] = [ev |-> "timer", n |-> 0]
    /\ env.healthy /\ env.db_up /\ env.save_ok /\ env.csv_ok /\ env.email_ok
    /\ env.slack_ok

\* C3: with plugins.enabled = [A, B], A returning 3 opportunities and B
\* timing out, run_scraping_session records a session with status
\* 'completed' and opportunities_found = 3, and returns success.
C3_PartialTimeoutCompletes ==
    (rpc = "done" /\ C3_Scenario) =>
        /\ ret = "True"
        /\ scrape_sessions # <<>>
        /\ scrape_sessions[Len(scrape_sessions)].status = "completed"
        /\ scrape_sessions[Len(scrape_sessions)].opportunities_found = 3

FinalStatuses == {"completed", "failed", "no_data", "health_check_failed"}

\* C4: every execution of run_scraping_session hands exactly one session
\* record to persistence, with end_time set and a final status (never
\* 'started'), and does not modify the session after the hand-off.
C4_SessionFinalizedOnce ==
    /\ rpc \in {"try", "finally"} => handoffs = <<>>
    /\ rpc \in {"after", "done"} =>
          /\ Len(handoffs) = 1
          /\ handoffs[1].end_time = "set"
          /\ handoffs[1].status \in FinalStatuses
          /\ session = handoffs[1]
          /\ env.db_up => /\ scrape_sessions # <<>>
                          /\ scrape_sessions[Len(scrape_sessions)] = handoffs[1]

C4_Witness ==
    /\ rpc = "done"
    /\ ret = "False"
    /\ env.enabled # <<>>
    /\ Len(handoffs) = 1
    /\ handoffs[1].status = "health_check_failed"
    /\ scrape_sessions # <<>>

(***************************************************************************)
(* Claims about the alert throttle, checked under SpecAlert                *)
(***************************************************************************)
\* C9: an alert issued again within its severity's cool-down window since
\* the last dispatch of the same (metric, severity) is not dispatched, so
\* the two issues give one dispatch; issued again once the window has
\* elapsed since the last dispatch, it is dispatched a second time.
C9_OneDispatchPerWindow ==
    lastAttempt.since # <<>> =>
        (lastAttempt.dispatched <=>
            lastAttempt.since[1] >= throttle_time(lastAttempt.alert.severity))

\* A dispatch, then the same alert refused inside the window, then the same
\* alert dispatched again after the window.
C9_Witness ==
    /\ lastAttempt.since # <<>>
    /\ lastAttempt.after_refusal
    /\ lastAttempt.dispatched
    /\ apc["c1"] = "idle"
    /\ alert_history[alert_key(lastAttempt.alert)] > 0

\* C10: the throttle suppresses an alert exactly when its key is in the
\* history and the time since the key's last recorded send is strictly less
\* than the window of its severity: 1 hour for critical, 4 for warning, 12
\* for info, 4 for any other severity.  At exactly the window's length the
\* alert is dispatched.
C10_SuppressedIffInsideWindow ==
    LET sev == lastAttempt.alert.severity
        window == IF sev = "critical" THEN 1
                  ELSE IF sev = "info" THEN 12
                  ELSE 4
    IN  lastAttempt.alert \in Alerts =>
            (~lastAttempt.dispatched <=>
                (lastAttempt.age # <<>> /\ lastAttempt.age[1] < window))

\* An info alert issued exactly twelve hours after its last send goes out.
C10_Witness ==
    /\ lastAttempt.alert.severity = "info"
    /\ lastAttempt.age = <<12>>
    /\ lastAttempt.dispatched
    /\ apc["c1"] = "send"

\* C11: when two evaluation cycles run concurrently and both hold an alert
\* with the same key that is outside its cool-down, the check and the
\* recording act as one atomic check-and-set: never are both cycles past
\* the check with that key, so exactly one of the two alerts is dispatched.
C11_AtomicCheckAndSet ==
    \A c, d \in Cycles :
        (c # d /\ apc[c] # "idle" /\ apc[d] # "idle") =>
            cur[c].key # cur[d].key

(***************************************************************************)
(* Claims about the identity hash and the opportunity store (SpecStore)    *)
(***************************************************************************)
SameIdentityFields(x, y) ==
    /\ x.title = y.title /\ x.agency = y.agency
    /\ x.deadline = y.deadline /\ x.url = y.url

\* C12: two opportunities with identical title, agency, deadline and url get
\* the same identity hash, whatever their other fields are: the object in
\* hand hashes to the hash stored with every row that agrees with it on the
\* four fields.
C12_HashOfIdentityFields ==
    \A r \in opportunities_table :
        SameIdentityFields(r, held) => generate_hash(held) = r.hash

C12_Witness ==
    \E r \in opportunities_table :
        /\ SameIdentityFields(r, held)
        /\ r.description # held.description
        /\ r.discovered_at # held.discovered_at
        /\ generate_hash(held) = r.hash

\* The columns of the rows that come from the opportunity.
OpportunityColumns(rows) ==
    {[hash |-> r.hash, title |-> r.title, agency |-> r.agency,
      deadline |-> r.deadline, value |-> r.value, urgency |-> r.urgency,
      contact |-> r.contact, url |-> r.url, description |-> r.description,
      keywords |-> r.keywords, score |-> r.score,
      discovered_at |-> r.discovered_at] : r \in rows}

\* C13: save_opportunity is an idempotent upsert keyed by the identity hash:
\* the table never holds two rows with one hash; after a successful save the
\* row of that hash carries the fields of the saved opportunity (the last
\* save wins); and saving the same opportunity again leaves the same
\* opportunity rows.
C13_IdempotentUpsert ==
    /\ [](/\ \A r1, r2 \in opportunities_table : r1.hash = r2.hash => r1 = r2
          /\ lastSave.ok =>
                \E r \in opportunities_table :
                    /\ r.hash = generate_hash(lastSave.opp)
                    /\ OpportunityColumns({r}) =
                          OpportunityColumns({Row(lastSave.opp, 0, 0)}))
    /\ [][(/\ lastSave'.seq # lastSave.seq
           /\ lastSave'.ok /\ lastSave'.again) =>
              OpportunityColumns(opportunities_table') =
                  OpportunityColumns(opportunities_table)]_vars

\* The same object saved a second time, later: still one row.
C13_Witness ==
    /\ lastSave.ok /\ lastSave.again
    /\ Cardinality(opportunities_table) = 1
    /\ \E r \in opportunities_table :
          /\ r.id = 2
          /\ r.hash = generate_hash(lastSave.opp)
          /\ r.last_updated > r.discovered_at

\* C14: a later upsert of an opportunity with the same identity hash does not
\* change the stored discovered_at of that identity.
C14_DiscoveryTimestampKept ==
    [][\A r \in opportunities_table, n \in opportunities_table' :
          r.hash = n.hash => n.discovered_at = r.discovered_at]_vars

(***************************************************************************)
(* Claims about _score_opportunities (SpecScore)                           *)
(***************************************************************************)
\* C15: after scoring, the score is in [0, 10] for every combination of
\* urgency, value text, keyword matches and deadline and for every
\* configured set of weights.
C15_ScoreInRange ==
    scored # NotScored => (0 <= scored.score /\ scored.score <= 100000)

Vocabulary == {"payment", "fintech", "technology", "digital", "software"}

\* C16: with the default weights the score is min(10, U + V + K + D): U is
\* 3.0, 2.01 or 0.99 for urgency high, medium, other; V is 2.0 for 'million',
\* else 1.0 for 'thousand' or 'k', else 0; K is 1.5 per vocabulary keyword in
\* the title plus 0.75 per keyword in the description; D is 2.0 for at most 7
\* days, 1.0 for at most 30, 0 otherwise or when unparseable.  High urgency,
\* '$2.5 million', 3 days and only 'software' in the title give 8.5.
C16_DefaultWeightsFormula ==
    (scoring_config = DefaultScoring /\ scored # NotScored) =>
        LET o == scored.opp
            U == IF o.urgency = "high" THEN 30000
                 ELSE IF o.urgency = "medium" THEN 20100 ELSE 9900
            V == IF "million" \in Found(o.value) THEN 20000
                 ELSE IF "thousand" \in Found(o.value) \/ "k" \in Found(o.value)
                      THEN 10000 ELSE 0
            K == 15000 * Cardinality(Found(o.title) \cap Vocabulary)
                 + 7500 * Cardinality(Found(o.description) \cap Vocabulary)
            D == IF o.deadline.days = <<>> THEN 0
                 ELSE IF o.deadline.days[1] <= 7 THEN 20000
                 ELSE IF o.deadline.days[1] <= 30 THEN 10000 ELSE 0
            total == U + V + K + D
        IN  /\ scored.score = IF total <= 100000 THEN total ELSE 100000
            /\ (/\ o.urgency = "high" /\ o.value = "$2.5 million"
                /\ o.deadline.days = <<3>> /\ o.title = "Software upgrade"
                /\ o.description = "") => scored.score = 85000

C16_Witness ==
    /\ scoring_config = DefaultScoring
    /\ scored # NotScored
    /\ scored.opp.urgency = "high"
    /\ scored.opp.value = "$2.5 million"
    /\ scored.opp.deadline.days = <<3>>
    /\ scored.opp.title = "Software upgrade"
    /\ scored.opp.description = ""
    /\ scored.score = 85000

(***************************************************************************)
(* More claims about run_scraping_session (SpecSession)                    *)
(***************************************************************************)
\* The number of records the enabled plugins yield together in this run.
EnvYield == Len(scrape_all_sources(env).opportunities)

\* Some enabled plugin's fetch fails or times out in this run.
EnvSomeFetchFails ==
    \E i \in DOMAIN env.enabled : env.plan[env.enabled[i]].ev # "returned"

\* C17: when the system is otherwise healthy, the plugins yield records and
\* every upsert of the run fails, the session is finalized with status
\* 'failed' and a non-empty error text, and the run does not return success.
C17_PersistenceFailureFailsRun ==
    (rpc = "done" /\ env.healthy /\ EnvYield > 0 /\ ~env.save_ok) =>
        /\ ret # "True"
        /\ Len(handoffs) = 1
        /\ handoffs[1].status = "failed"
        /\ handoffs[1].errors # ""

\* C18: when the system is healthy and the enabled plugins together yield no
\* record (some or all may have failed or timed out), the session is
\* recorded with status 'no_data', no upsert is made and the run returns
\* success; when some plugin yields records while another fails, the status
\* is 'completed' and the run returns success.
C18_NoDataAndPartialSuccess ==
    (rpc = "done" /\ env.healthy /\ env.db_up) =>
        /\ EnvYield = 0 =>
              /\ ret = "True"
              /\ effects.upserts = 0
              /\ scrape_sessions # <<>>
              /\ scrape_sessions[Len(scrape_sessions)].status = "no_data"
        /\ (/\ EnvYield > 0 /\ EnvSomeFetchFails
            /\ env.csv_ok /\ env.email_ok /\ env.slack_ok) =>
              /\ ret = "True"
              /\ scrape_sessions # <<>>
              /\ scrape_sessions[Len(scrape_sessions)].status = "completed"

\* C19: when the opportunities were given and saved and the email or the
\* Slack delivery then fails, the session status is still 'completed' and
\* the run still returns success.
C19_NotificationFailureContained ==
    (/\ rpc = "done" /\ env.healthy /\ env.db_up /\ env.save_ok /\ env.csv_ok
     /\ EnvYield > 0 /\ (~env.email_ok \/ ~env.slack_ok)) =>
        /\ ret = "True"
        /\ scrape_sessions # <<>>
        /\ scrape_sessions[Len(scrape_sessions)].status = "completed"

(***************************************************************************)
(* Claims about concurrent callers of one breaker (SpecCallers)            *)
(***************************************************************************)
\* C20: when several callers use the same breaker concurrently, no
\* increment is lost: once k failing calls, started from failure count 0
\* with no success among them, have finished, the failure count is k and
\* the state is OPEN exactly when k >= threshold.
C20_NoLostIncrement ==
    (~succeeded /\ \A t \in Callers : tpc[t] = "idle") =>
        /\ failure_count = failed_calls
        /\ state = "OPEN" <=> failed_calls >= failure_threshold

(***************************************************************************)
(* More claims about the circuit breaker (SpecBreaker)                     *)
(***************************************************************************)
\* C21: a wrapped call that raises an exception which is not an instance of
\* the configured exception class is treated as a success: afterwards the
\* failure count is 0 and the state is CLOSED.
C21_OtherExceptionIsSuccess ==
    lastCall.res = "other" => failure_count = 0 /\ state = "CLOSED"

(***************************************************************************)
(* More claims about scrape_all_sources (SpecScrape)                       *)
(***************************************************************************)
\* C22 as stated: the merged result is the concatenation of the record lists
\* in the order in which the tasks completed, so the records of the task that
\* was first to complete with records come first.
C22_MergedInCompletionOrder ==
    (spc = "returned" /\ first_done # 0) => opportunities[1][2] = first_done

\* C22, amended: the merged result is the concatenation of the record lists
\* in the order in which the tasks were created, which is the order of the
\* names in plugins.enabled, whatever the order in which the tasks completed.
C22_MergedInLaunchOrder ==
    spc = "returned" =>
        \A k1, k2 \in DOMAIN opportunities :
            k1 < k2 =>
                \/ opportunities[k1][2] < opportunities[k2][2]
                \/ /\ opportunities[k1][2] = opportunities[k2][2]
                   /\ opportunities[k1][3] < opportunities[k2][3]

C22_Witness ==
    /\ spc = "returned"
    /\ first_done = 2
    /\ tasks[1].ev = "returned" /\ tasks[1].result.val # <<>>
    /\ tasks[1].plugin # tasks[2].plugin
    /\ opportunities[1][2] = 1

\* The entries of plugins.enabled that name plugin p.
Entries(p) == {k \in DOMAIN enabled : enabled[k] = p}

\* The tasks of this run that invoked the fetch of plugin p.
Fetches(p) == {i \in DOMAIN tasks : tasks[i].plugin = p}

\* C23: in one scrape_all_sources run the fetch of a plugin is invoked once
\* for each entry of plugins.enabled that names a plugin of the registry,
\* never for a plugin that is absent from the registry or not enabled, and a
\* task that has ended (by timeout, by an error or normally) is never started
\* again in that run.
C23_FetchOncePerEnabledPlugin ==
    /\ [](spc # "idle" =>
            \A p \in PluginNames :
                Cardinality(Fetches(p)) =
                    IF p \in DOMAIN plugins THEN Cardinality(Entries(p)) ELSE 0)
    /\ [][spc = "gather" =>
            /\ Len(tasks') = Len(tasks)
            /\ \A i \in DOMAIN tasks :
                  tasks[i].st = "done" => tasks'[i] = tasks[i]]_vars

C23_Witness ==
    /\ spc = "returned"
    /\ \E p, q, r \in PluginNames :
          /\ p \in DOMAIN plugins /\ Cardinality(Entries(p)) = 1
          /\ \E i \in Fetches(p) : tasks[i].ev = "timer"
          /\ q \notin DOMAIN plugins /\ Entries(q) # {} /\ Fetches(q) = {}
          /\ r \in DOMAIN plugins /\ Entries(r) = {} /\ Fetches(r) = {}

\* C30: scrape_all_sources always terminates and is a full barrier: even if
\* the fetch of an enabled plugin never completes, the call returns once
\* every launched task has finished or hit its timeout, and no task it
\* launched is still running when it returns.
C30_TerminatesAsBarrier ==
    /\ [](ScrapeOver => \A i \in DOMAIN tasks : tasks[i].st = "done")
    /\ (spc = "gather" ~> ScrapeOver)

C30_Witness ==
    /\ spc = "returned"
    /\ Len(tasks) >= 2
    /\ \E i \in DOMAIN tasks : tasks[i].ev = "timer" /\ tasks[i].cancelled
    /\ \E i \in DOMAIN tasks : tasks[i].ev = "returned"
    /\ \A i \in DOMAIN tasks : tasks[i].st = "done"

(***************************************************************************)
(* Claims about the plugin registry (SpecRegistry)                         *)
(***************************************************************************)
\* The plugin names some file of directory dir defines.
Discoverable(dir) ==
    {dir[f].name : f \in {g \in PluginFiles : dir[g].kind = "plugin"}}

\* C28: after reload_plugins the registry contains exactly the plugins
\* discoverable at the time of the reload, each as a file then defines it,
\* and get_plugin_info lists exactly the registry's plugins, each under its
\* own name with its description and version.
C28_ReloadRediscovers ==
    [][lastReload' # lastReload =>
        /\ DOMAIN plugins' = Discoverable(plugin_dir)
        /\ \A n \in DOMAIN plugins' :
              \E f \in PluginFiles :
                  plugin_dir[f] = PluginFile(n, plugins'[n].meta)
        /\ LET info == get_plugin_info(plugins')
           IN  /\ DOMAIN info = DOMAIN plugins'
               /\ \A n \in DOMAIN info :
                     /\ info[n].name = n
                     /\ plugins'[n].meta = "full" =>
                           /\ info[n].description = "description of " \o n
                           /\ info[n].version = "2.0.0"
                     /\ plugins'[n].meta = "bare" =>
                           /\ info[n].description = "No description"
                           /\ info[n].version = "1.0.0"]_vars

C28_Witness ==
    /\ lastReload.seq # 0
    /\ lastReload.before \ DOMAIN plugins # {}
    /\ DOMAIN plugins \ lastReload.before # {}
    /\ DOMAIN plugins = Discoverable(plugin_dir)
    /\ \E f \in PluginFiles : plugin_dir[f].kind = "broken"
    /\ \E n \in DOMAIN plugins : get_plugin_info(plugins)[n].version = "1.0.0"

(***************************************************************************)
(* Claims about the alert fan-out (SpecDispatch)                           *)
(***************************************************************************)
\* C24: when one alert is dispatched with both the email and the Slack
\* channel configured, a failure of one channel does not prevent the other
\* from being attempted and does not undo a delivery already made, and the
\* dispatch completes without raising to the throttle stage.
C24_ChannelsIndependent ==
    /\ []((email_sender /\ slack_webhook /\ dpc = "done") =>
            outbox.email # "none" /\ outbox.slack # "none")
    /\ []((email_sender /\ slack_webhook /\ outbox.ended # "none") =>
            /\ outbox.ended = "returned"
            /\ outbox.email # "none" /\ outbox.slack # "none")
    /\ [][(outbox.email = "delivered" /\ outbox'.alert = outbox.alert
             /\ dpc # "idle") => outbox'.email = "delivered"]_vars

C24_Witness ==
    /\ email_sender /\ slack_webhook
    /\ outbox.ended = "returned"
    /\ outbox.email = "failed"
    /\ outbox.slack = "delivered"
    /\ dispatches = MaxDispatches

(***************************************************************************)
(* Claims about the ML scorer's fallback (SpecML)                          *)
(***************************************************************************)
\* C25: when the learned model cannot produce a prediction (ML libraries
\* missing, model not trained, or the prediction raises), the ML scorer
\* returns for every opportunity the score that _score_opportunities assigns
\* to it with the default weights, and that value is in [0, 10].
C25_FallbackIsRuleBasedScore ==
    (ml_scored # NotMLScored /\ ml_scored.mode # "predicts") =>
        /\ ml_scored.score = score_opportunity(DefaultScoring, ml_scored.opp)
        /\ 0 <= ml_scored.score /\ ml_scored.score <= 100000

(***************************************************************************)
(* Claims about the plugins' urgency derivation (SpecUrgency)              *)
(***************************************************************************)
\* The urgency the rule with `high` up to h days gives.
UrgencyRule(h) ==
    IF derived.deadline.kind # "date" THEN "medium"
    ELSE IF days_until(derived.deadline, derived.at[1]) <= h THEN "high"
    ELSE IF days_until(derived.deadline, derived.at[1]) <= 30 THEN "medium"
    ELSE "low"

\* C26 as stated: every plugin derives urgency from the number of days until
\* the deadline in the same way: at most 7 days gives 'high', more than 7 and
\* at most 30 gives 'medium', more than 30 gives 'low', and an unknown or
\* unparseable deadline gives 'medium'.
C26_SameUrgencyRule ==
    derived # NotDerived => derived.urgency = UrgencyRule(7)

\* C26, amended: the plugins built on determine_urgency use that rule; the
\* federal plugin uses the same rule except that up to 10 days give 'high'.
C26_UrgencyRulePerPlugin ==
    derived # NotDerived =>
        derived.urgency =
            UrgencyRule(IF derived.plugin = "federal_opportunities"
                        THEN 10 ELSE 7)

C26_Witness ==
    /\ derived.plugin = "federal_opportunities"
    /\ derived.deadline.kind = "date"
    /\ derived.at # <<>>
    /\ derived.at[1].late
    /\ days_until(derived.deadline, derived.at[1]) = 9
    /\ derived.urgency = "high"

(***************************************************************************)
(* Claims about continuous mode (SpecContinuous)                           *)
(***************************************************************************)
\* The runs that have started and have not finalized their session.
InProgress == {i \in DOMAIN jobs : jobs[i].st = "suspended"}

\* C27: in continuous mode runs do not overlap: at most one
\* run_scraping_session is in progress at any time, and a scheduled run
\* never starts while a previously started run has not yet finalized its
\* session.
C27_RunsDoNotOverlap ==
    /\ [](Cardinality(InProgress) <= 1)
    /\ [][\A i \in DOMAIN jobs :
            (jobs[i].st = "created" /\ jobs'[i].st # "created") =>
                InProgress = {}]_vars

C27_Witness ==
    /\ Len(jobs) = MaxScheduled
    /\ \A i \in DOMAIN jobs :
          /\ jobs[i].st = "finalized"
          /\ jobs[i].env = <<[healthy |-> TRUE, db_up |-> TRUE]>>

(***************************************************************************)
(* Claims about the order of the merged list                               *)
(***************************************************************************)
TimesIn(s, x) == Cardinality({i \in DOMAIN s : s[i] = x})

IsPermutation(s, t) ==
    /\ Len(s) = Len(t)
    /\ \A i \in DOMAIN s : TimesIn(s, s[i]) = TimesIn(t, s[i])

\* A stored row without its rowid and its last_updated stamp.
Content(r) == [f \in (DOMAIN r) \ {"id", "last_updated"} |-> r[f]]

Contents(rows) == {Content(r) : r \in rows}

\* Two runs in which every save succeeded and whose lists are permutations
\* of one another, the second one at its end.
PermutedRuns ==
    /\ ppc = "done"
    /\ clean /\ prior.clean
    /\ IsPermutation(given, prior.list)

\* Permuted runs give every opportunity object the same score and store
\* rows of the same identities.
PermutedRunsAgreeOnScoresAndIdentities ==
    PermutedRuns =>
        /\ IsPermutation(scored_opps, prior.scored)
        /\ {r.hash : r \in opportunities_table} = {r.hash : r \in prior.rows}

Severities(alerts) == {alerts[i].severity : i \in DOMAIN alerts}

\* The alerts an evaluator with bounds lo and hi is to return for score s.
Graded(alerts, s, lo, hi) ==
    /\ Len(alerts) <= 1
    /\ "critical" \in Severities(alerts) <=> s < lo
    /\ "warning" \in Severities(alerts) <=> (lo <= s /\ s < hi)
    /\ alerts = <<>> <=> s >= hi

\* C31: an evaluator returns at most one alert: the health-score evaluator
\* a critical one exactly below 50, a warning exactly from 50 to below 80
\* and nothing from 80 on; the success-rate evaluator the same with 70 and
\* 90.  What is returned depends on the score alone, and no evaluation
\* changes the alert history.
C31_EvaluatorsGradeByThreshold ==
    /\ [](evaluated.evaluator = "health_score"
            => Graded(evaluated.alerts, evaluated.arg, 500, 800))
    /\ [](evaluated.evaluator = "success_rate"
            => Graded(evaluated.alerts, evaluated.arg, 700, 900))
    /\ [][evaluated' # evaluated => alert_history' = alert_history]_vars

C31_Witness ==
    /\ evaluated.evaluator = "success_rate"
    /\ evaluated.arg = 700
    /\ Severities(evaluated.alerts) = {"warning"}
    /\ alert_history # <<>>

C33_RejectionChangesNothing ==
    [][(lastCall' # lastCall /\ lastCall'.res = "rejected") =>
          /\ failure_count' = failure_count
          /\ last_failure_time' = last_failure_time
          /\ state' = state
          /\ \A t \in 0..MaxTime :
                Admit(Breaker', t) = Admit(Breaker, t)]_vars

C33_Witness ==
    /\ lastCall.res = "rejected"
    /\ lastCall.pre = "OPEN"
    /\ lastCall.elapsed > 0
    /\ state = "OPEN"

(***************************************************************************)
(* Claims about the identity key                                           *)
(***************************************************************************)
\* C34: an opportunity that differs from a stored one in title, agency,
\* deadline or url has another hash input and so another hash than the
\* stored row: saving it cannot replace that row.
C34_DistinctIdentitiesDistinctKeys ==
    \A r \in opportunities_table :
        ~SameIdentityFields(r, held) => generate_hash(held) # r.hash

(***************************************************************************)
(* Claims about a run whose health check fails                             *)
(***************************************************************************)
\* A run whose health check has failed is past its try block.
FailedHealthCheck == rpc \in {"finally", "after", "done"} /\ ~health_check(env)

\* Such a run has fetched, upserted and notified nothing, and hands its
\* session over once, with status health_check_failed.
FailedHealthCheckRunIsInert ==
    FailedHealthCheck =>
        /\ effects = NoEffects
        /\ pending = "False"
        /\ rpc \in {"after", "done"} =>
              /\ Len(handoffs) = 1
              /\ handoffs[1].status = "health_check_failed"

\* C37: a run whose health check fails invokes no plugin fetch, upserts and
\* notifies nothing, records its session exactly once with status
\* health_check_failed, and returns False.
C37_FailedHealthCheckRun ==
    (FailedHealthCheck /\ rpc = "done") =>
        /\ effects = NoEffects
        /\ Len(handoffs) = 1
        /\ handoffs[1].status = "health_check_failed"
        /\ scrape_sessions # <<>>
        /\ scrape_sessions[Len(scrape_sessions)] = handoffs[1]
        /\ ret = "False"

(***************************************************************************)
(* Claims about what the throttle writes, checked under SpecAlert          *)
(***************************************************************************)
AttemptKey == alert_key(lastAttempt.alert)

\* C35: an attempt the throttle suppresses leaves the alert history as it
\* was and starts no send; so between attempts the history entry of a key
\* is the time of the key's last dispatch, from which the cool-down runs.
C35_SuppressionLeavesHistory ==
    /\ [][(lastAttempt'.seq # lastAttempt.seq /\ ~lastAttempt'.dispatched) =>
             /\ alert_history' = alert_history
             /\ dispatched_at' = dispatched_at
             /\ apc' = apc /\ cur' = cur]_vars
    /\ [](apc["c1"] = "idle" => alert_history = dispatched_at)

\* The same alert suppressed twice in a row, hours after its dispatch.
C35_Witness ==
    /\ ~lastAttempt.dispatched
    /\ lastAttempt.after_refusal
    /\ lastAttempt.age # <<>> /\ lastAttempt.age[1] >= 2
    /\ alert_history[AttemptKey] = clock - lastAttempt.age[1]
    /\ apc["c1"] = "idle"

\* C36: an alert the throttle lets through has its key stamped with the
\* time of the attempt once _send_alert_notification has returned, whether
\* the alert was delivered, every send failed or no channel is configured;
\* the stamp is not there before the dispatch.
C36_RecordedWhateverDelivery ==
    /\ [][(apc["c1"] = "record" /\ apc'["c1"] = "idle") =>
             /\ cur["c1"].key \in DOMAIN alert_history'
             /\ alert_history'[cur["c1"].key] = cur["c1"].now]_vars
    /\ []((apc["c1"] = "idle" /\ lastAttempt.dispatched) =>
             /\ lastAttempt.outcome \in {"delivered", "failed", "no_channel"}
             /\ AttemptKey \in DOMAIN alert_history
             /\ alert_history[AttemptKey] = dispatched_at[AttemptKey])
    /\ [](apc["c1"] = "send" =>
             \/ cur["c1"].key \notin DOMAIN alert_history
             \/ alert_history[cur["c1"].key] < cur["c1"].now)

\* An alert whose only channel failed is in the history.
C36_Witness ==
    /\ apc["c1"] = "idle"
    /\ lastAttempt.dispatched
    /\ lastAttempt.outcome = "failed"
    /\ AttemptKey \in DOMAIN alert_history
    /\ alert_history[AttemptKey] = clock

\* The history h cut down to the entry of key.
OwnEntry(h, key) == [k \in DOMAIN h \cap {key} |-> h[k]]

\* C38: the alerts the evaluators raise have one key per (metric, severity)
\* pair; whether an attempt is dispatched is decided by the history entry
\* of its own key; a step changes at most the entry of the key being
\* recorded, and no entry is ever removed.
C38_ThrottlingPerKey ==
    /\ [](\A a, b \in firing : a # b => alert_key(a) # alert_key(b))
    /\ [][lastAttempt'.seq # lastAttempt.seq =>
             (lastAttempt'.dispatched <=>
                ~throttled(OwnEntry(alert_history, alert_key(lastAttempt'.alert)),
                           alert_key(lastAttempt'.alert), clock,
                           lastAttempt'.alert.severity))]_vars
    /\ [][/\ DOMAIN alert_history \subseteq DOMAIN alert_history'
          /\ \A k \in DOMAIN alert_history' :
                (k \notin DOMAIN alert_history
                    \/ alert_history'[k] # alert_history[k]) =>
                   (apc["c1"] = "record" /\ k = alert_key(cur["c1"].alert))]_vars

\* A critical health alert goes out while the warning for the same metric
\* is inside its cool-down.
C38_Witness ==
    /\ apc["c1"] = "idle"
    /\ lastAttempt.alert = [metric |-> "health_score", severity |-> "critical"]
    /\ lastAttempt.dispatched
    /\ "health_score_warning" \in DOMAIN alert_history
    /\ alert_history["health_score_warning"] < clock
    /\ clock - alert_history["health_score_warning"] < 4
    /\ alert_history["health_score_critical"] = clock

====
